---- MODULE Spec2Model ----
(***************************************************************************)
(* The tabular preprocessing pipeline of the data-analysis step:           *)
(* analyzeVariables, preprocessDataAdvanced and its three stages           *)
(* handleMissingValues, handleOutliers and standardizeData.                *)
(*                                                                         *)
(* JavaScript numbers are modelled in fixed point: the integer n stands    *)
(* for the number n / Scale.  Divisions and square roots round to the      *)
(* nearest representable value, as IEEE arithmetic does at its own         *)
(* precision; a division by zero yields NaN or an infinity as in IEEE.     *)
(*                                                                         *)
(* Row objects live in `heap`; an array of rows is a sequence of           *)
(* references (indices into heap), so that `[...data]` copies the array    *)
(* but shares the row objects, exactly as the spread operator does.        *)
(***************************************************************************)
EXTENDS Integers, Sequences, FiniteSets, TLC

\* ------------------------------------------------------------------ bounds

\* Largest number of rows of an uploaded table.
MaxRows == 4

\* Fixed-point unit: the integer n stands for n / Scale.
Scale == 10 * 10 * 10

\* `config.threshold || 0.5`: the value substituted for a falsy threshold.
DefaultThreshold == 500

\* ------------------------------------------------------------------ cells

Null   == [k |-> "null", v |-> 0]
NaN    == [k |-> "nan",  v |-> 0]
PosInf == [k |-> "inf",  v |-> 1]
NegInf == [k |-> "inf",  v |-> -1]
Num(n) == [k |-> "num",  v |-> n]

\* A string cell: s is the sequence of the string's characters.
Str(s) == [k |-> "str",  v |-> s]

\* A Date object: t is its time value in milliseconds (an integer).
Date(t) == [k |-> "date", v |-> t]

\* undefined: a cell read under a key the row does not have.
Undefined == [k |-> "undef", v |-> 0]

\* Column names, in first-row key order.
Columns == <<"x", "y", "c">>

ColumnSet == {Columns[i] : i \in 1..Len(Columns)}

\* Column names of uploaded files, for the detection of the data type.
Headers == <<"firm_id", "Year", "revenue", "cost", "DATE", "valid", "City">>

HeaderSet == {Headers[i] : i \in 1..Len(Headers)}

\* The characters of a column name.
Chars(name) ==
    CASE name = "x"       -> <<"x">>
      [] name = "y"       -> <<"y">>
      [] name = "c"       -> <<"c">>
      [] name = "firm_id" -> <<"f", "i", "r", "m", "_", "i", "d">>
      [] name = "Year"    -> <<"Y", "e", "a", "r">>
      [] name = "revenue" -> <<"r", "e", "v", "e", "n", "u", "e">>
      [] name = "cost"    -> <<"c", "o", "s", "t">>
      [] name = "DATE"    -> <<"D", "A", "T", "E">>
      [] name = "valid"   -> <<"v", "a", "l", "i", "d">>
      [] name = "City"    -> <<"C", "i", "t", "y">>

\* The cells a parsed column may hold in this model.
CellsOf(col) ==
    CASE col = "x" -> {Null, Num(0), Num(9 * Scale)}
      [] col = "y" -> {Null, Num(5 * Scale)}
      [] OTHER     -> {Str(<<"a">>)}

RowSet == {r \in [ColumnSet -> {Null, Num(0), Num(9 * Scale), Num(5 * Scale), Str(<<"a">>)}] :
             \A col \in ColumnSet : r[col] \in CellsOf(col)}

\* ------------------------------------------------------------------- text

Digits == <<"0", "1", "2", "3", "4", "5", "6", "7", "8", "9">>

IsDigit(ch) == \E i \in 1..Len(Digits) : Digits[i] = ch

DigitValue(ch) == (CHOOSE i \in 1..Len(Digits) : Digits[i] = ch) - 1

AllDigits(s) == \A i \in 1..Len(s) : IsDigit(s[i])

\* The value of a run of decimal digits.
RECURSIVE Decimal(_)
Decimal(s) ==
    IF s = <<>> THEN 0
    ELSE 10 * Decimal(SubSeq(s, 1, Len(s) - 1)) + DigitValue(s[Len(s)])

\* White space and line terminators, as String.prototype.trim strips them.
IsSpace(ch) == ch \in {" ", "\t", "\n", "\r"}

RECURSIVE TrimStart(_)
TrimStart(s) ==
    IF s # <<>> /\ IsSpace(Head(s)) THEN TrimStart(Tail(s)) ELSE s

RECURSIVE TrimEnd(_)
TrimEnd(s) ==
    IF s # <<>> /\ IsSpace(s[Len(s)]) THEN TrimEnd(SubSeq(s, 1, Len(s) - 1)) ELSE s

\* String.prototype.trim
trim(s) == TrimEnd(TrimStart(s))

\* The position of the first ch in s, or 0.
IndexOf(s, ch) ==
    IF \E i \in 1..Len(s) : s[i] = ch
    THEN CHOOSE i \in 1..Len(s) : s[i] = ch /\ \A j \in 1..(i - 1) : s[j] # ch
    ELSE 0

\* The fraction digits f as a number of units of 1 / Scale (three places).
FractionUnits(f) ==
    LET padded == SubSeq(f \o <<"0", "0", "0">>, 1, 3)
    IN  Decimal(padded)

\* An unsigned decimal literal: digits, optionally followed by "." and
\* digits (or "." and digits alone).
IsUnsignedDecimal(s) ==
    LET dot == IndexOf(s, ".")
    IN  IF dot = 0 THEN s # <<>> /\ AllDigits(s)
        ELSE /\ AllDigits(SubSeq(s, 1, dot - 1))
             /\ AllDigits(SubSeq(s, dot + 1, Len(s)))
             /\ Len(s) > 1

UnsignedDecimalValue(s) ==
    LET dot == IndexOf(s, ".")
    IN  IF dot = 0 THEN Decimal(s) * Scale
        ELSE Decimal(SubSeq(s, 1, dot - 1)) * Scale
               + FractionUnits(SubSeq(s, dot + 1, Len(s)))

\* Number(s) for a string s: white space is trimmed, the empty string is 0,
\* a signed decimal literal is its value, everything else is NaN.  (The
\* strings of this model hold no exponent, radix prefix or "Infinity".)
StringToNumber(s) ==
    LET t == trim(s)
    IN  IF t = <<>> THEN Num(0)
        ELSE IF Head(t) \in {"+", "-"}
        THEN IF IsUnsignedDecimal(Tail(t))
             THEN Num((IF Head(t) = "-" THEN -1 ELSE 1) * UnsignedDecimalValue(Tail(t)))
             ELSE NaN
        ELSE IF IsUnsignedDecimal(t) THEN Num(UnsignedDecimalValue(t))
        ELSE NaN

\* ------------------------------------------------------------------ dates

MsPerDay == 24 * 60 * 60 * 1000

\* The number made of the digits s[i .. j].
Field(s, i, j) == Decimal(SubSeq(s, i, j))

IsLeapYear(y) == (y % 4 = 0 /\ y % 100 # 0) \/ y % 400 = 0

DaysInMonth(y, m) ==
    CASE m \in {4, 6, 9, 11} -> 30
      [] m = 2 -> IF IsLeapYear(y) THEN 29 ELSE 28
      [] OTHER -> 31

\* Days from 1970-01-01 to the first day of year y (y >= 1970).
DaysBeforeYear(y) ==
    365 * (y - 1970) + ((y - 1969) \div 4) - ((y - 1901) \div 100)
        + ((y - 1601) \div 400)

RECURSIVE DaysBeforeMonth(_, _)
DaysBeforeMonth(y, m) ==
    IF m = 1 THEN 0 ELSE DaysBeforeMonth(y, m - 1) + DaysInMonth(y, m - 1)

\* The ECMAScript date-time string format, in its forms YYYY, YYYY-MM-DD and
\* YYYY-MM-DDTHH:mm:ss.sssZ.
IsISOYear(s) == Len(s) = 4 /\ AllDigits(s)

IsISODate(s) ==
    /\ Len(s) = 10
    /\ s[5] = "-" /\ s[8] = "-"
    /\ AllDigits(SubSeq(s, 1, 4)) /\ AllDigits(SubSeq(s, 6, 7))
    /\ AllDigits(SubSeq(s, 9, 10))
    /\ Field(s, 6, 7) \in 1..12
    /\ Field(s, 9, 10) \in 1..DaysInMonth(Field(s, 1, 4), Field(s, 6, 7))

IsISODateTime(s) ==
    /\ Len(s) = 24
    /\ IsISODate(SubSeq(s, 1, 10))
    /\ s[11] = "T" /\ s[14] = ":" /\ s[17] = ":" /\ s[20] = "." /\ s[24] = "Z"
    /\ AllDigits(SubSeq(s, 12, 13)) /\ AllDigits(SubSeq(s, 15, 16))
    /\ AllDigits(SubSeq(s, 18, 19)) /\ AllDigits(SubSeq(s, 21, 23))
    /\ Field(s, 12, 13) \in 0..23
    /\ Field(s, 15, 16) \in 0..59
    /\ Field(s, 18, 19) \in 0..59

\* !isNaN(Date.parse(s)) for a string s.  A string in none of the three
\* forms is taken as unparsable; the strings of this model are such that
\* the engines agree on them.
IsDateString(s) == IsISOYear(s) \/ IsISODate(s) \/ IsISODateTime(s)

\* Date.parse(s) for a date string s of 1970 or later: milliseconds since
\* the epoch.
DateParse(s) ==
    LET y    == Field(s, 1, 4)
        m    == IF Len(s) >= 10 THEN Field(s, 6, 7) ELSE 1
        d    == IF Len(s) >= 10 THEN Field(s, 9, 10) ELSE 1
        days == DaysBeforeYear(y) + DaysBeforeMonth(y, m) + (d - 1)
        time == IF Len(s) = 24
                THEN ((Field(s, 12, 13) * 60 + Field(s, 15, 16)) * 60
                        + Field(s, 18, 19)) * 1000 + Field(s, 21, 23)
                ELSE 0
    IN  days * MsPerDay + time

\* ------------------------------------------------------------- arithmetic

Abs(a) == IF a < 0 THEN -a ELSE a

\* a / b for b > 0, rounded to the nearest integer (half away from zero).
RDiv(a, b) ==
    IF a >= 0 THEN (2 * a + b) \div (2 * b)
              ELSE -((2 * (-a) + b) \div (2 * b))

\* The IEEE quotient a / b of two finite numbers, as a cell.
Divide(a, b) ==
    IF b = 0
    THEN (IF a = 0 THEN NaN ELSE IF a > 0 THEN PosInf ELSE NegInf)
    ELSE Num(IF b > 0 THEN RDiv(a * Scale, b) ELSE RDiv(-(a * Scale), -b))

RECURSIVE SqrtSearch(_, _, _)
SqrtSearch(n, lo, hi) ==
    IF lo >= hi THEN lo
    ELSE LET mid == (lo + hi + 1) \div 2
         IN  IF mid * mid <= n THEN SqrtSearch(n, mid, hi)
                               ELSE SqrtSearch(n, lo, mid - 1)

\* Math.sqrt of a non-negative fixed-point number, rounded to nearest.
MathSqrt(a) ==
    LET n == a * Scale
        r == SqrtSearch(n, 0, 46340)
    IN  IF n - r * r <= r THEN r ELSE r + 1

\* Math.pow(d, 2)
Square(d) == RDiv(d * d, Scale)

RECURSIVE SumSeq(_)
SumSeq(s) == IF s = <<>> THEN 0 ELSE Head(s) + SumSeq(Tail(s))

RECURSIVE Insert(_, _)
Insert(a, s) ==
    IF s = <<>> THEN <<a>>
    ELSE IF a <= Head(s) THEN <<a>> \o s
    ELSE <<Head(s)>> \o Insert(a, Tail(s))

\* [...values].sort((a, b) => a - b)
RECURSIVE SortAsc(_)
SortAsc(s) == IF s = <<>> THEN <<>> ELSE Insert(Head(s), SortAsc(Tail(s)))

\* ------------------------------------------------------------- statistics

calculateMean(values) ==
    IF Len(values) = 0 THEN 0
    ELSE RDiv(SumSeq(values), Len(values))

\* Mutant of calculateStd: the sample deviation (n - 1 in the divisor).
calculateStd_Sample(values) ==
    IF Len(values) <= 1 THEN 0
    ELSE LET mean == calculateMean(values)
             squareDiffs == [i \in 1..Len(values) |-> Square(values[i] - mean)]
         IN  MathSqrt(RDiv(SumSeq(squareDiffs), Len(values) - 1))

calculateStd(values) ==
    IF Len(values) = 0 THEN 0
    ELSE LET mean == calculateMean(values)
             squareDiffs == [i \in 1..Len(values) |-> Square(values[i] - mean)]
         IN  MathSqrt(calculateMean(squareDiffs))

\* Mutant of calculateMedian: the upper middle value, whatever the count.
calculateMedian_UpperMiddle(values) ==
    IF Len(values) = 0 THEN 0
    ELSE SortAsc(values)[(Len(values) \div 2) + 1]

calculateMedian(values) ==
    IF Len(values) = 0 THEN 0
    ELSE LET sorted == SortAsc(values)
             middle == Len(sorted) \div 2      \* 0-based index
         IN  IF Len(sorted) % 2 = 0
             THEN RDiv(sorted[middle] + sorted[middle + 1], 2)
             ELSE sorted[middle + 1]

\* Math.min(...values), Math.max(...values): an infinity for no value.
MathMin(values) ==
    IF Len(values) = 0 THEN PosInf
    ELSE Num(CHOOSE m \in {values[i] : i \in 1..Len(values)} :
                \A i \in 1..Len(values) : m <= values[i])

MathMax(values) ==
    IF Len(values) = 0 THEN NegInf
    ELSE Num(CHOOSE m \in {values[i] : i \in 1..Len(values)} :
                \A i \in 1..Len(values) : m >= values[i])

\* ------------------------------------------------------------------ tables

\* data.map(row => row[name])
ColumnCells(heap, data, name) ==
    [i \in 1..Len(data) |->
        IF name \in DOMAIN heap[data[i]] THEN heap[data[i]][name] ELSE Undefined]

\* data.map(row => row[name]).filter(v => v !== null), as numbers
ColumnValues(heap, data, name) ==
    LET kept == SelectSeq(ColumnCells(heap, data, name), LAMBDA c : c # Null)
    IN  [i \in 1..Len(kept) |-> kept[i].v]

\* Mutant of MissingCount: counts the cells that are present.
MissingCount_Present(heap, data, name) ==
    Cardinality({i \in 1..Len(data) : heap[data[i]][name] # Null})

\* data.filter(row => row[name] === null).length
MissingCount(heap, data, name) ==
    Cardinality({i \in 1..Len(data) : heap[data[i]][name] = Null})

\* ---------------------------------------------------------- normalization

\* isNaN(v): v is coerced to a number first, so a numeric string and a Date
\* are not NaN.
isNaN(c) ==
    CASE c.k = "str" -> StringToNumber(c.v) = NaN
      [] c.k \in {"nan", "undef"} -> TRUE
      [] OTHER -> FALSE

\* Number(v): a Date gives its time value.
Number(c) ==
    CASE c.k = "str"   -> StringToNumber(c.v)
      [] c.k = "date"  -> Num(c.v * Scale)
      [] c.k = "null"  -> Num(0)
      [] c.k = "undef" -> NaN
      [] OTHER -> c

\* !isNaN(Date.parse(v)): v is turned into a string first.  A Date prints in
\* a form Date.parse reads back.  The string of a number is left to the
\* engine's fallback parser, taken here as accepting it; no classification
\* of a normalized table depends on that case.
ParsesAsDate(c) ==
    CASE c.k = "str"  -> IsDateString(c.v)
      [] c.k = "date" -> TRUE
      [] c.k = "num"  -> TRUE
      [] OTHER -> FALSE

\* Mutant of preprocessValue: the date test comes before the number test.
preprocessValue_DateFirst(value) ==
    IF value = Str(<<>>) \/ value = Undefined \/ value = Null THEN Null
    ELSE IF value.k = "str" /\ ParsesAsDate(value) THEN Date(0)
    ELSE IF ~isNaN(value) THEN Number(value)
    ELSE value

\* The branches of preprocessData for one cell.
preprocessValue(value) ==
    IF value = Str(<<>>) \/ value = Undefined \/ value = Null THEN Null
    ELSE IF ~isNaN(value) THEN Number(value)
    ELSE IF ParsesAsDate(value) THEN Date(DateParse(value.v))
    ELSE value

\* { ...row } with every key processed.
preprocessRow(row) == [key \in DOMAIN row |-> preprocessValue(row[key])]

\* preprocessData: a new array of new row objects.
preprocessData(heap, data) ==
    LET rows == [i \in 1..Len(data) |-> preprocessRow(heap[data[i]])]
    IN  [heap |-> heap \o rows,
         data |-> [i \in 1..Len(data) |-> Len(heap) + i]]

\* -------------------------------------------------------------- detection

UpperCase == <<"A", "B", "C", "D", "E", "F", "G", "H", "I", "J", "K", "L", "M",
               "N", "O", "P", "Q", "R", "S", "T", "U", "V", "W", "X", "Y", "Z">>

LowerCase == <<"a", "b", "c", "d", "e", "f", "g", "h", "i", "j", "k", "l", "m",
               "n", "o", "p", "q", "r", "s", "t", "u", "v", "w", "x", "y", "z">>

\* Mutant of toLowerCase: the string as it is.
toLowerCase_AsIs(s) == s

\* String.prototype.toLowerCase
toLowerCase(s) ==
    [i \in 1..Len(s) |->
        IF \E j \in 1..Len(UpperCase) : UpperCase[j] = s[i]
        THEN LowerCase[CHOOSE j \in 1..Len(UpperCase) : UpperCase[j] = s[i]]
        ELSE s[i]]

\* String.prototype.includes
includes(s, token) ==
    \E i \in 1..(Len(s) - Len(token) + 1) : SubSeq(s, i, i + Len(token) - 1) = token

TimeTokens == {<<"y", "e", "a", "r">>, <<"d", "a", "t", "e">>, <<"t", "i", "m", "e">>}

EntityTokens ==
    {<<"i", "d">>, <<"e", "n", "t", "i", "t", "y">>, <<"f", "i", "r", "m">>,
     <<"c", "o", "m", "p", "a", "n", "y">>,
     <<"p", "r", "o", "v", "i", "n", "c", "e">>, <<"c", "i", "t", "y">>}

\* Object.keys(data[0]).some(key => the lower-cased key includes a token)
SomeKeyIncludes(keys, tokens) ==
    \E i \in 1..Len(keys) :
        \E token \in tokens : includes(toLowerCase(Chars(keys[i])), token)

\* --------------------------------------------------------------- analysis

\* !isNaN(v) for a non-null cell.
IsNumeric(c) == ~isNaN(c)

\* Every column name a table may use, in the order the files list them.
KeyOrder == Columns \o Headers

\* Object.keys(row)
ObjectKeys(row) == SelectSeq(KeyOrder, LAMBDA name : name \in DOMAIN row)

\* values.filter(v => !isNaN(v)).map(Number), in units of 1 / Scale
NumericValues(values) ==
    LET kept == SelectSeq(values, IsNumeric)
    IN  [i \in 1..Len(kept) |-> Number(kept[i]).v]

\* The classification rule of analyzeVariables over a column's cells.
VariableType(cells) ==
    LET values        == SelectSeq(cells, LAMBDA c : c # Null)
        numericValues == NumericValues(values)
    IN  IF /\ Len(numericValues) = Len(values)
           /\ \A i \in 1..Len(numericValues) :
                 numericValues[i] = 0 \/ numericValues[i] = 1 * Scale
        THEN "dummy"
        ELSE IF Len(numericValues) * 10 > 8 * Len(values)
        THEN "numeric"
        ELSE IF \A i \in 1..Len(values) : ParsesAsDate(values[i])
        THEN "date"
        ELSE "categorical"

\* Mutant of VariableStats: every value that is no number counts as missing.
VariableStats_NumericCount(cells, type) ==
    LET values        == SelectSeq(cells, LAMBDA c : c # Null)
        numericValues == NumericValues(values)
    IN  [count   |-> Len(values),
         mean    |-> Num(0), std |-> Num(0), min |-> Num(0), max |-> Num(0),
         missing |-> Len(cells) - Len(numericValues)]

\* The DataStats of a column of the given type.
VariableStats(cells, type) ==
    LET values        == SelectSeq(cells, LAMBDA c : c # Null)
        numericValues == NumericValues(values)
        numeric       == type \in {"numeric", "dummy"}
    IN  [count   |-> Len(values),
         mean    |-> IF numeric THEN Num(calculateMean(numericValues)) ELSE Num(0),
         std     |-> IF numeric THEN Num(calculateStd(numericValues)) ELSE Num(0),
         min     |-> IF numeric THEN MathMin(numericValues) ELSE Num(0),
         max     |-> IF numeric THEN MathMax(numericValues) ELSE Num(0),
         missing |-> Len(cells) - Len(values)]

\* One VariableInfo per column, in first-row key order.
analyzeVariables(heap, data) ==
    IF Len(data) = 0 THEN <<>>
    ELSE LET columns == ObjectKeys(heap[data[1]])
         IN  [i \in 1..Len(columns) |->
                LET cells == ColumnCells(heap, data, columns[i])
                    type  == VariableType(cells)
                IN  [name  |-> columns[i],
                     type  |-> type,
                     stats |-> VariableStats(cells, type)]]

\* detectDataType: the confidence in units of 1 / Scale.
detectDataType(heap, data) ==
    IF Len(data) = 0 THEN [dataType |-> "null", confidence |-> 0]
    ELSE LET keys == ObjectKeys(heap[data[1]])
             hasTimeVariable   == SomeKeyIncludes(keys, TimeTokens)
             hasEntityVariable == SomeKeyIncludes(keys, EntityTokens)
         IN  IF hasTimeVariable /\ hasEntityVariable
             THEN [dataType |-> "panel", confidence |-> (9 * Scale) \div 10]
             ELSE IF hasTimeVariable
             THEN [dataType |-> "time_series", confidence |-> (8 * Scale) \div 10]
             ELSE [dataType |-> "cross_section", confidence |-> (7 * Scale) \div 10]

\* Mutant of IsNumericVariable: dummy variables pass as numeric too.
IsNumericVariable_OrDummy(variable) == variable.type \in {"numeric", "dummy"}

\* variable.type === 'numeric': the test each stage makes before it touches
\* a column.
IsNumericVariable(variable) == variable.type = "numeric"

\* ---------------------------------------------------------------- summary

\* A summary maps column names to entries; Absent marks a name with no entry.
Absent == [method |-> "absent", count |-> 0]

EmptySummary == [col \in ColumnSet |-> Absent]

NoParams == [method |-> "absent", params |-> Null]

EmptyParams == [col \in ColumnSet |-> NoParams]

\* ---------------------------------------------------- missing-value stage

\* processedData.map(row => row[name] === null ? {...row, [name]: val} : row):
\* a row with a null is replaced by a fresh copy, the others are kept.
RECURSIVE Impute(_, _, _, _, _)
Impute(heap, data, name, val, i) ==
    IF i > Len(data) THEN [heap |-> heap, data |-> data, count |-> 0]
    ELSE IF heap[data[i]][name] = Null
    THEN LET newRow == [heap[data[i]] EXCEPT ![name] = Num(val)]
             rest   == Impute(Append(heap, newRow),
                              [data EXCEPT ![i] = Len(heap) + 1], name, val, i + 1)
         IN  [rest EXCEPT !.count = @ + 1]
    ELSE Impute(heap, data, name, val, i + 1)

\* Mutant of RemoveRows: the filter keeps the rows it should drop.
RemoveRows_Inverted(heap, data, name) ==
    SelectSeq(data, LAMBDA ref : heap[ref][name] = Null)

\* processedData.filter(row => row[name] !== null)
RemoveRows(heap, data, name) ==
    SelectSeq(data, LAMBDA ref : heap[ref][name] # Null)

\* missingRatio > (config.threshold || 0.5); 0 / 0 is NaN and compares false.
ExceedsThreshold(missingCount, length, config) ==
    /\ length > 0
    /\ RDiv(missingCount * Scale, length)
         > (IF "threshold" \in DOMAIN config /\ config.threshold # 0
            THEN config.threshold ELSE DefaultThreshold)

\* The body of variables.forEach in handleMissingValues, for one variable.
MissingStep(st, variable, config) ==
    LET name         == variable.name
        missingCount == MissingCount(st.heap, st.data, name)
        values       == ColumnValues(st.heap, st.data, name)
    IN  IF ~IsNumericVariable(variable) THEN st
        ELSE IF ExceedsThreshold(missingCount, Len(st.data), config)
        THEN [st EXCEPT !.summary[name] = [method |-> "skip", count |-> missingCount]]
        ELSE CASE config.method = "mean" ->
                    LET r == Impute(st.heap, st.data, name, calculateMean(values), 1)
                    IN  [heap |-> r.heap, data |-> r.data,
                         summary |-> [st.summary EXCEPT
                                        ![name] = [method |-> "mean", count |-> r.count]]]
               [] config.method = "median" ->
                    LET r == Impute(st.heap, st.data, name, calculateMedian(values), 1)
                    IN  [heap |-> r.heap, data |-> r.data,
                         summary |-> [st.summary EXCEPT
                                        ![name] = [method |-> "median", count |-> r.count]]]
               [] config.method = "remove" ->
                    LET newData == RemoveRows(st.heap, st.data, name)
                    IN  [heap |-> st.heap, data |-> newData,
                         summary |-> [st.summary EXCEPT
                                        ![name] = [method |-> "remove",
                                                   count |-> Len(st.data) - Len(newData)]]]
               [] OTHER -> st

RECURSIVE MissingLoop(_, _, _, _)
MissingLoop(st, vars, config, i) ==
    IF i > Len(vars) THEN st
    ELSE MissingLoop(MissingStep(st, vars[i], config), vars, config, i + 1)

\* handleMissingValues(data, variables, config): {data, summary}, and the heap
\* with the row copies it allocated.
handleMissingValues(heap, data, vars, config) ==
    MissingLoop([heap |-> heap, data |-> data, summary |-> EmptySummary],
                vars, config, 1)

\* ---------------------------------------------------------- outlier stage

\* a * b of two fixed-point numbers
Mul(a, b) == RDiv(a * b, Scale)

\* Math.abs((value - mean) / std) > threshold; NaN compares false.
ZScoreExceeds(value, mean, std, threshold) ==
    LET z == Divide(value - mean, std)
    IN  CASE z.k = "num" -> Abs(z.v) > threshold
          [] z.k = "inf" -> TRUE
          [] OTHER       -> FALSE

\* The indices (into values) of the values flagged, in ascending order.
detectOutliersZScore(values, threshold) ==
    LET mean == calculateMean(values)
        std  == calculateStd(values)
    IN  SelectSeq([i \in 1..Len(values) |-> i],
                  LAMBDA i : ZScoreExceeds(values[i], mean, std, threshold))

\* Mutant of detectOutliersIQR: the indices returned are those of the sorted
\* copy.
detectOutliersIQR_SortedIndices(values, threshold) ==
    IF Len(values) = 0 THEN <<>>
    ELSE LET sorted     == SortAsc(values)
             q1         == sorted[(Len(sorted) \div 4) + 1]
             q3         == sorted[((3 * Len(sorted)) \div 4) + 1]
             iqr        == q3 - q1
             lowerBound == q1 - Mul(threshold, iqr)
             upperBound == q3 + Mul(threshold, iqr)
         IN  SelectSeq([i \in 1..Len(sorted) |-> i],
                       LAMBDA i : sorted[i] < lowerBound \/ sorted[i] > upperBound)

\* detectOutliersIQR: the quartiles are read off a sorted copy at
\* Math.floor(length * 0.25) and Math.floor(length * 0.75).
detectOutliersIQR(values, threshold) ==
    IF Len(values) = 0 THEN <<>>    \* q1, q3 undefined: nothing to flag
    ELSE LET sorted     == SortAsc(values)
             q1         == sorted[(Len(sorted) \div 4) + 1]
             q3         == sorted[((3 * Len(sorted)) \div 4) + 1]
             iqr        == q3 - q1
             lowerBound == q1 - Mul(threshold, iqr)
             upperBound == q3 + Mul(threshold, iqr)
         IN  SelectSeq([i \in 1..Len(values) |-> i],
                       LAMBDA i : values[i] < lowerBound \/ values[i] > upperBound)

\* outlierIndices.forEach(index => processedData[index][name] = ...):
\* the index is one into `values`, and is used as one into processedData.
RECURSIVE ClampLoop(_, _, _, _, _, _, _)
ClampLoop(heap, data, name, values, outlierIndices, threshold, j) ==
    IF j > Len(outlierIndices) THEN heap
    ELSE LET index == outlierIndices[j]
             value == values[index]
             mean  == calculateMean(values)
             std   == calculateStd(values)
             bound == IF value > mean THEN mean + Mul(threshold, std)
                                      ELSE mean - Mul(threshold, std)
         IN  ClampLoop([heap EXCEPT ![data[index]][name] = Num(bound)],
                       data, name, values, outlierIndices, threshold, j + 1)

\* The body of variables.forEach in handleOutliers, for one variable.
OutlierStep(st, data, variable, config) ==
    IF ~IsNumericVariable(variable) THEN st
    ELSE LET name   == variable.name
             values == ColumnValues(st.heap, data, name)
             outlierIndices ==
                 CASE config.method = "zscore" -> detectOutliersZScore(values, config.threshold)
                   [] config.method = "iqr"    -> detectOutliersIQR(values, config.threshold)
                   [] OTHER                    -> <<>>
         IN  [heap    |-> ClampLoop(st.heap, data, name, values, outlierIndices,
                                    config.threshold, 1),
              summary |-> [st.summary EXCEPT
                             ![name] = [method |-> config.method,
                                        count  |-> Len(outlierIndices)]]]

RECURSIVE OutlierLoop(_, _, _, _, _)
OutlierLoop(st, data, vars, config, i) ==
    IF i > Len(vars) THEN st
    ELSE OutlierLoop(OutlierStep(st, data, vars[i], config), data, vars, config, i + 1)

\* handleOutliers(data, variables, config): the rows of `data` are written in
\* place; the array returned is a copy of `data` holding the same rows.
handleOutliers(heap, data, vars, config) ==
    LET st == OutlierLoop([heap |-> heap, summary |-> EmptySummary], data, vars, config, 1)
    IN  [heap |-> st.heap, data |-> data, summary |-> st.summary]

\* ---------------------------------------------------- standardization stage

\* (row[name] - a) / b
Rescale(c, a, b) == IF c.k = "num" THEN Divide(c.v - a, b) ELSE NaN

\* processedData.forEach(row => { if (row[name] !== null) row[name] = ... })
RECURSIVE RescaleLoop(_, _, _, _, _, _)
RescaleLoop(heap, data, name, a, b, i) ==
    IF i > Len(data) THEN heap
    ELSE IF heap[data[i]][name] # Null
    THEN RescaleLoop([heap EXCEPT ![data[i]][name] = Rescale(@, a, b)],
                     data, name, a, b, i + 1)
    ELSE RescaleLoop(heap, data, name, a, b, i + 1)

\* The body of variables.forEach in standardizeData, for one variable.
StandardizeStep(st, data, variable, config) ==
    IF ~IsNumericVariable(variable) THEN st
    ELSE LET name   == variable.name
             values == ColumnValues(st.heap, data, name)
         IN  CASE config.method = "zscore" ->
                    LET mean == calculateMean(values)
                        std  == calculateStd(values)
                    IN  [heap    |-> RescaleLoop(st.heap, data, name, mean, std, 1),
                         summary |-> [st.summary EXCEPT
                                        ![name] = [method |-> "zscore",
                                                   params |-> [mean |-> Num(mean),
                                                               std  |-> Num(std)]]]]
               [] config.method = "minmax" ->
                    LET min == MathMin(values)
                        max == MathMax(values)
                    IN  [heap    |-> IF Len(values) = 0 THEN st.heap
                                     ELSE RescaleLoop(st.heap, data, name,
                                                      min.v, max.v - min.v, 1),
                         summary |-> [st.summary EXCEPT
                                        ![name] = [method |-> "minmax",
                                                   params |-> [min |-> min,
                                                               max |-> max]]]]
               [] OTHER -> st

RECURSIVE StandardizeLoop(_, _, _, _, _)
StandardizeLoop(st, data, vars, config, i) ==
    IF i > Len(vars) THEN st
    ELSE StandardizeLoop(StandardizeStep(st, data, vars[i], config),
                         data, vars, config, i + 1)

\* standardizeData(data, variables, config): rows written in place.
standardizeData(heap, data, vars, config) ==
    LET st == StandardizeLoop([heap |-> heap, summary |-> EmptyParams],
                              data, vars, config, 1)
    IN  [heap |-> st.heap, data |-> data, summary |-> st.summary]

\* ------------------------------------------------------------ the program

VARIABLES
    heap,           \* the row objects, by reference
    data,           \* the caller's table: the array passed to preprocessDataAdvanced
    variables,      \* the VariableInfo list passed with it
    config,         \* the PreprocessConfig passed with it
    processedData,  \* preprocessDataAdvanced's local array
    summary,        \* preprocessDataAdvanced's local summary
    pc,             \* the stage preprocessDataAdvanced is about to run
    dataType,       \* parseFile: what detectDataType returned
    text,           \* parseCSV: the text it is called with
    file,           \* parseFile: the File it is called with
    reader,         \* parseFile: the FileReader
    promise,        \* parseFile: the promise it returns
    dataInfo,       \* recommendMethodsByDataStructure: its argument
    recommendations, \* recommendMethodsByDataStructure: the list it returns
    iqrValues,      \* detectOutliersIQR: the values it is called with
    iqrThreshold,   \* detectOutliersIQR: the threshold it is called with
    iqrIndices,     \* detectOutliersIQR: the index list it returns
    editorDataType,        \* DataAnalysisEditor: its dataType state
    detectedDataType,      \* DataAnalysisEditor: its detectedDataType state
    methodRecommendations, \* DataAnalysisEditor: its methodRecommendations state
    selectedVariables,     \* DataAnalysisEditor: its selectedVariables state
    uploading,             \* DataAnalysisEditor: its uploading state
    currentFile,           \* DataAnalysisEditor: its currentFile state (a name)
    dataPreview,           \* DataAnalysisEditor: its dataPreview state
    message                \* the notice last shown by message.success / .error

vars == <<heap, data, variables, config, processedData, summary, pc,
          dataType, text, file, reader, promise, dataInfo, recommendations,
          iqrValues, iqrThreshold, iqrIndices,
          editorDataType, detectedDataType, methodRecommendations, selectedVariables,
          uploading, currentFile, dataPreview, message>>

\* What a call of parseFile holds, and what a call of the recommender holds.
uploadVars == <<dataType, text, file, reader, promise>>

recommendVars == <<dataInfo, recommendations>>

detectionVars == <<iqrValues, iqrThreshold, iqrIndices>>

\* The editor's state apart from the selection, and all of it.
uploadStateVars ==
    <<detectedDataType, methodRecommendations, uploading, currentFile, dataPreview,
      message>>

editorVars == <<editorDataType, selectedVariables, uploadStateVars>>

\* No upload and no recommendation is under way.
NoDataType == [dataType |-> "null", confidence |-> 0]

NoFile == [name |-> <<>>, content |-> [kind |-> "none"], error |-> ""]

NoPromise == [state |-> "none", value |-> <<>>, settled |-> 0]

UploadIdle ==
    /\ dataType = NoDataType
    /\ text = <<>>
    /\ file = NoFile
    /\ reader = "none"
    /\ promise = NoPromise

RecommendIdle ==
    /\ dataInfo = <<>>
    /\ recommendations = <<>>

\* No outlier detection is under way on its own.
DetectionIdle ==
    /\ iqrValues = <<>>
    /\ iqrThreshold = 0
    /\ iqrIndices = <<>>

\* useState<DataTypeInfo | null>(null)
NoDetectedType == [type |-> "null", confidence |-> 0]

\* The editor as useState leaves it when it mounts without a data set.
EditorIdle ==
    /\ editorDataType = "cross"
    /\ detectedDataType = NoDetectedType
    /\ methodRecommendations = <<>>
    /\ selectedVariables = <<>>
    /\ uploading = FALSE
    /\ currentFile = "null"
    /\ dataPreview = ""
    /\ message = "none"

\* The sub-configurations a call may be made with.
MissingConfigs ==
    {[method |-> "none", threshold |-> DefaultThreshold]} \cup
    {[method |-> m, threshold |-> t] :
        m \in {"mean", "median", "mode", "remove"}, t \in {0, DefaultThreshold, Scale}}

OutlierConfigs ==
    {[method |-> "none", threshold |-> Scale]} \cup
    {[method |-> m, threshold |-> Scale] : m \in {"zscore", "iqr"}}

StandardizationConfigs == {[method |-> m] : m \in {"zscore", "minmax", "none"}}

\* The configurations of the calls explored with all three stages in play.
PipelineConfigs ==
    [missingValue    : {c \in MissingConfigs :
                          /\ c.threshold = DefaultThreshold
                          /\ c.method \in {"none", "mean", "remove"}},
     outlier         : OutlierConfigs,
     standardization : StandardizationConfigs]

\* The configurations of the calls explored for the missing-value stage:
\* every method and threshold, the other two stages switched off.
MissingStageConfigs ==
    [missingValue    : MissingConfigs,
     outlier         : {c \in OutlierConfigs : c.method = "none"},
     standardization : {c \in StandardizationConfigs : c.method = "none"}]

\* A table as parseFile hands it on (distinct row objects, the variables as
\* analyzeVariables reports them) and a configuration out of configs;
\* preprocessDataAdvanced has been entered.
InitWith(configs) ==
    /\ \E n \in 1..MaxRows : heap \in [1..n -> RowSet]
    /\ data = [i \in 1..Len(heap) |-> i]
    /\ variables = analyzeVariables(heap, data)
    /\ config \in configs
    /\ processedData = data
    /\ summary = [missingValues |-> EmptySummary, outliers |-> EmptySummary,
                  standardization |-> EmptyParams]
    /\ pc = "missing"
    /\ UploadIdle
    /\ RecommendIdle
    /\ DetectionIdle
    /\ EditorIdle

Init == InitWith(PipelineConfigs)

InitMissing == InitWith(MissingStageConfigs)

MissingStage ==
    /\ pc = "missing"
    /\ IF "missingValue" \notin DOMAIN config
       THEN /\ pc' = "TypeError"
            /\ UNCHANGED <<heap, processedData, summary>>
       ELSE /\ pc' = "outlier"
            /\ IF config.missingValue.method # "none"
               THEN LET result == handleMissingValues(heap, processedData, variables,
                                                      config.missingValue)
                    IN  /\ heap' = result.heap
                        /\ processedData' = result.data
                        /\ summary' = [summary EXCEPT !.missingValues = result.summary]
               ELSE UNCHANGED <<heap, processedData, summary>>
    /\ UNCHANGED <<data, variables, config, uploadVars,
                   recommendVars, detectionVars, editorVars>>

\* Mutant of OutlierStage: the stage is handed the caller's table instead of
\* the table the missing-value stage returned.
OutlierStage_OnInput ==
    /\ pc = "outlier"
    /\ IF "outlier" \notin DOMAIN config
       THEN /\ pc' = "TypeError"
            /\ UNCHANGED <<heap, processedData, summary>>
       ELSE /\ pc' = "standardize"
            /\ IF config.outlier.method # "none"
               THEN LET result == handleOutliers(heap, data, variables, config.outlier)
                    IN  /\ heap' = result.heap
                        /\ processedData' = result.data
                        /\ summary' = [summary EXCEPT !.outliers = result.summary]
               ELSE UNCHANGED <<heap, processedData, summary>>
    /\ UNCHANGED <<data, variables, config, uploadVars,
                   recommendVars, detectionVars, editorVars>>

OutlierStage ==
    /\ pc = "outlier"
    /\ IF "outlier" \notin DOMAIN config
       THEN /\ pc' = "TypeError"
            /\ UNCHANGED <<heap, processedData, summary>>
       ELSE /\ pc' = "standardize"
            /\ IF config.outlier.method # "none"
               THEN LET result == handleOutliers(heap, processedData, variables, config.outlier)
                    IN  /\ heap' = result.heap
                        /\ processedData' = result.data
                        /\ summary' = [summary EXCEPT !.outliers = result.summary]
               ELSE UNCHANGED <<heap, processedData, summary>>
    /\ UNCHANGED <<data, variables, config, uploadVars,
                   recommendVars, detectionVars, editorVars>>

StandardizeStage ==
    /\ pc = "standardize"
    /\ IF "standardization" \notin DOMAIN config
       THEN /\ pc' = "TypeError"
            /\ UNCHANGED <<heap, processedData, summary>>
       ELSE /\ pc' = "done"
            /\ IF config.standardization.method # "none"
               THEN LET result == standardizeData(heap, processedData, variables,
                                                  config.standardization)
                    IN  /\ heap' = result.heap
                        /\ processedData' = result.data
                        /\ summary' = [summary EXCEPT !.standardization = result.summary]
               ELSE UNCHANGED <<heap, processedData, summary>>
    /\ UNCHANGED <<data, variables, config, uploadVars,
                   recommendVars, detectionVars, editorVars>>

\* Each stage reads its sub-configuration's method first: when the
\* sub-configuration is absent that read throws a TypeError out of
\* preprocessDataAdvanced.
Next == MissingStage \/ OutlierStage \/ StandardizeStage

Spec == Init /\ [][Next]_vars

SpecMissing == InitMissing /\ [][Next]_vars

\* A configuration with every stage switched on.
FullConfig ==
    [missingValue    |-> [method |-> "mean", threshold |-> DefaultThreshold],
     outlier         |-> [method |-> "zscore", threshold |-> Scale],
     standardization |-> [method |-> "zscore"]]

\* FullConfig and what a caller may pass in its place: a sub-configuration
\* left out (or all of them), the optional threshold left out, a method
\* that is none of the stage's methods.
LooseConfigs ==
    {FullConfig,
     [key \in {"outlier", "standardization"} |-> FullConfig[key]],
     [key \in {"missingValue", "standardization"} |-> FullConfig[key]],
     [key \in {"missingValue", "outlier"} |-> FullConfig[key]],
     [key \in {} |-> FullConfig[key]],
     [FullConfig EXCEPT !.missingValue = [method |-> "mean"]],
     [FullConfig EXCEPT !.missingValue.method = "foo"],
     [FullConfig EXCEPT !.outlier.method = "foo"],
     [FullConfig EXCEPT !.standardization.method = "foo"]}

InitLoose == InitWith(LooseConfigs)

SpecLoose == InitLoose /\ [][Next]_vars

\* ------------------------------------------- normalization and analysis

\* Largest number of rows of a parsed table handed to preprocessData.
MaxRawRows == 5

\* A string that is a date and no number: 5 ms after the epoch.
DateText == <<"1", "9", "7", "0", "-", "0", "1", "-", "0", "1", "T",
              "0", "0", ":", "0", "0", ":", "0", "0", ".", "0", "0", "5", "Z">>

\* A string that is a number and a date (the year 9).
YearText == <<"0", "0", "0", "9">>

\* The cells a parser may deliver: strings (empty, numeric, numeric and
\* date, date, other), null and undefined.
RawCells ==
    {Str(<<>>), Null, Undefined, Str(<<"0">>), Str(<<"1">>), Str(YearText),
     Str(DateText), Str(<<"a", "b", "c">>)}

RawRowSet ==
    {r \in [ColumnSet -> RawCells \cup {Str(<<"5">>), Str(<<"a">>)}] :
        /\ r["x"] \in RawCells
        /\ r["y"] = Str(<<"5">>)
        /\ r["c"] = Str(<<"a">>)}

\* The rows of tables whose column names vary: one cell per name.
NamedRowSet == UNION {[names -> {Str(<<"1">>)}] : names \in SUBSET HeaderSet}

\* A configuration that switches every stage off.
NoConfig ==
    [missingValue    |-> [method |-> "none", threshold |-> DefaultThreshold],
     outlier         |-> [method |-> "none", threshold |-> Scale],
     standardization |-> [method |-> "none"]]

\* A parsed table has been handed to preprocessData, as parseFile does
\* with what the parser returned.
InitParsed(tables) ==
    /\ heap \in tables
    /\ data = [i \in 1..Len(heap) |-> i]
    /\ variables = <<>>
    /\ config = NoConfig
    /\ processedData = <<>>
    /\ summary = [missingValues |-> EmptySummary, outliers |-> EmptySummary,
                  standardization |-> EmptyParams]
    /\ pc = "preprocess"
    /\ UploadIdle
    /\ RecommendIdle
    /\ DetectionIdle
    /\ EditorIdle

\* Tables of up to MaxRawRows rows whose first column holds any raw cells.
InitNormalize ==
    InitParsed(UNION {[1..n -> RawRowSet] : n \in 0..MaxRawRows})

\* Tables of any column names: empty, of one row, or of one row followed
\* by a row that has every name.
InitDetect ==
    InitParsed({<<>>} \cup {<<r>> : r \in NamedRowSet}
                \cup {<<r, [name \in HeaderSet |-> Str(<<"1">>)]>> : r \in NamedRowSet})

\* preprocessData(data), and once more on its own result.
PreprocessData ==
    /\ pc \in {"preprocess", "repeat"}
    /\ LET result == preprocessData(heap, IF pc = "preprocess" THEN data
                                                              ELSE processedData)
       IN  /\ heap' = result.heap
           /\ processedData' = result.data
    /\ pc' = IF pc = "preprocess" THEN "detect" ELSE "repeated"
    /\ UNCHANGED <<data, variables, config, summary, uploadVars,
                   recommendVars, detectionVars, editorVars>>

\* detectDataType(processedData)
DetectDataType ==
    /\ pc = "detect"
    /\ dataType' = detectDataType(heap, processedData)
    /\ pc' = "analyze"
    /\ UNCHANGED <<heap, data, variables, config, processedData, summary,
                   text, file, reader, promise, recommendVars, detectionVars, editorVars>>

\* analyzeVariables(processedData)
AnalyzeVariables ==
    /\ pc = "analyze"
    /\ variables' = analyzeVariables(heap, processedData)
    /\ pc' = "repeat"
    /\ UNCHANGED <<heap, data, config, processedData, summary, uploadVars,
                   recommendVars, detectionVars, editorVars>>

NextNormalize == PreprocessData \/ DetectDataType \/ AnalyzeVariables

SpecNormalize == InitNormalize /\ [][NextNormalize]_vars

SpecDetect == InitDetect /\ [][NextNormalize]_vars

\* -------------------------------------------------------------- CSV parser

\* Longest CSV text handed to parseCSV.
MaxText == 5

\* The characters of a CSV text: a letter, the comma, the blank, the line
\* feed, and the backslash and the letter n.
Alphabet == {"a", ",", " ", "\n", "\\", "n"}

Texts == UNION {[1..n -> Alphabet] : n \in 0..MaxText}

\* The argument of text.split('\\n') as the source has it: a string
\* literal of two characters, a backslash and the letter n.
LineSeparator == <<"\\", "n">>

\* String.prototype.split for a non-empty separator.
RECURSIVE split(_, _)
split(s, separator) ==
    LET n    == Len(separator)
        hits == {i \in 1..(Len(s) - n + 1) : SubSeq(s, i, i + n - 1) = separator}
    IN  IF hits = {} THEN <<s>>
        ELSE LET i == CHOOSE h \in hits : \A g \in hits : h <= g
             IN  <<SubSeq(s, 1, i - 1)>> \o split(SubSeq(s, i + n, Len(s)), separator)

\* The string of a sequence of characters, as a property key.
RECURSIVE Join(_)
Join(s) == IF s = <<>> THEN "" ELSE Head(s) \o Join(Tail(s))

\* headers.reduce(...): obj[header] = values[index]?.trim() ?? '' for each
\* header in turn, so the last header of a name decides its value.
RowOfLine(headers, line) ==
    LET values == split(line, <<",">>)
        keys   == {Join(headers[i]) : i \in 1..Len(headers)}
    IN  [key \in keys |->
            LET index == CHOOSE i \in 1..Len(headers) :
                            /\ Join(headers[i]) = key
                            /\ \A j \in 1..Len(headers) :
                                  Join(headers[j]) = key => j <= i
            IN  IF index <= Len(values) THEN Str(trim(values[index]))
                                        ELSE Str(<<>>)]

\* parseCSV: the rows, as values.
parseCSV(csv) ==
    LET lines   == split(csv, LineSeparator)
        fields  == split(lines[1], <<",">>)
        headers == [i \in 1..Len(fields) |-> trim(fields[i])]
        kept    == SelectSeq(Tail(lines), LAMBDA line : trim(line) # <<>>)
    IN  [i \in 1..Len(kept) |-> RowOfLine(headers, kept[i])]

InitCSV ==
    /\ heap = <<>>
    /\ data = <<>>
    /\ variables = <<>>
    /\ config = NoConfig
    /\ processedData = <<>>
    /\ summary = [missingValues |-> EmptySummary, outliers |-> EmptySummary,
                  standardization |-> EmptyParams]
    /\ pc = "parseCSV"
    /\ dataType = NoDataType
    /\ text \in Texts
    /\ file = NoFile
    /\ reader = "none"
    /\ promise = NoPromise
    /\ RecommendIdle
    /\ DetectionIdle
    /\ EditorIdle

\* data = parseCSV(text)
ParseCSV ==
    /\ pc = "parseCSV"
    /\ heap' = heap \o parseCSV(text)
    /\ data' = [i \in 1..Len(parseCSV(text)) |-> Len(heap) + i]
    /\ pc' = "parsed"
    /\ UNCHANGED <<variables, config, processedData, summary, uploadVars,
                   recommendVars, detectionVars, editorVars>>

NextCSV == ParseCSV

SpecCSV == InitCSV /\ [][NextCSV]_vars

\* ------------------------------------------------------------- file upload

\* File names, by their characters.
CsvName == <<"d", ".", "c", "s", "v">>

XlsxName == <<"d", ".", "x", "l", "s", "x">>

XlsName == <<"d", ".", "x", "l", "s">>

TxtName == <<"d", ".", "t", "x", "t">>

JsonName == <<"d", ".", "j", "s", "o", "n">>

\* String.prototype.endsWith
endsWith(s, suffix) ==
    Len(suffix) <= Len(s) /\ SubSeq(s, Len(s) - Len(suffix) + 1, Len(s)) = suffix

\* What a file holds: a text, a workbook whose first sheet has the given
\* rows, or bytes XLSX.read throws on with the given message.
TextContents ==
    {[kind |-> "text", text |-> t] :
        t \in {<<"x", ",", "c", "\n", "1", ",", "a">>,
               <<"x", ",", "c", "\\", "n", "1", ",", "a">>,
               <<"x", ",", "c", "\\", "n", "1", "\\", "n", ",", "a">>,
               <<"x", "\\", "n">> \o DateText,
               <<>>}}

BookContents ==
    {[kind |-> "book", rows |-> rows] :
        rows \in {<<>>,
                  <<[x |-> Num(1 * Scale), c |-> Str(<<"a">>)]>>,
                  <<[x |-> Num(0), c |-> Str(<<"a">>)],
                    [x |-> Str(<<>>), c |-> Str(<<"a">>)]>>}}

CorruptContents == {[kind |-> "corrupt", message |-> "Unsupported file"]}

\* The files of the model: a text under the .csv name, a workbook or
\* unreadable bytes under the spreadsheet names, anything under the other
\* names; each with the message of the error its read ends in, or "" when
\* the read succeeds.
Files ==
    [name : {CsvName}, content : TextContents,
     error : {"", "NotReadableError"}]
    \cup [name : {XlsxName, XlsName}, content : BookContents \cup CorruptContents,
          error : {"", "NotReadableError"}]
    \cup [name : {TxtName, JsonName},
          content : TextContents \cup BookContents \cup CorruptContents,
          error : {"", "NotReadableError"}]

\* The messages of the errors parseFile rejects with (in the source they
\* are Chinese texts).
ReadFailed == "file read failed"

ParseFailed == "file parse failed: "

\* parseExcel: the first sheet's rows, or the exception XLSX.read throws.
parseExcel(content) ==
    IF content.kind = "book"
    THEN [thrown |-> FALSE, rows |-> content.rows, message |-> ""]
    ELSE [thrown |-> TRUE, rows |-> <<>>, message |-> content.message]

\* resolve / reject: only the first call settles the promise.
Settle(p, state, value) ==
    IF p.state = "pending"
    THEN [state |-> state, value |-> value, settled |-> p.settled + 1]
    ELSE p

InitUpload ==
    /\ heap = <<>>
    /\ data = <<>>
    /\ variables = <<>>
    /\ config = NoConfig
    /\ processedData = <<>>
    /\ summary = [missingValues |-> EmptySummary, outliers |-> EmptySummary,
                  standardization |-> EmptyParams]
    /\ pc = "parseFile"
    /\ dataType = NoDataType
    /\ text = <<>>
    /\ file \in Files
    /\ reader = "none"
    /\ promise = NoPromise
    /\ RecommendIdle
    /\ DetectionIdle
    /\ EditorIdle

\* parseFile(file): the promise is created, the handlers are set and the
\* read is started, as text for a .csv name and as an array buffer for
\* every other name.
ParseFile ==
    /\ pc = "parseFile"
    /\ promise' = [state |-> "pending", value |-> <<>>, settled |-> 0]
    /\ reader' = IF endsWith(file.name, <<".", "c", "s", "v">>)
                 THEN "readAsText" ELSE "readAsArrayBuffer"
    /\ pc' = "reading"
    /\ UNCHANGED <<heap, data, variables, config, processedData, summary,
                   dataType, text, file, recommendVars, detectionVars, editorVars>>

\* reader.onload: parse by the file's name, normalize, detect, analyze and
\* resolve; an exception on the way rejects.
ReaderOnLoad ==
    /\ pc = "reading"
    /\ file.error = ""
    /\ LET csv    == endsWith(file.name, <<".", "c", "s", "v">>)
           excel  == \/ endsWith(file.name, <<".", "x", "l", "s", "x">>)
                     \/ endsWith(file.name, <<".", "x", "l", "s">>)
           parsed == IF csv
                     THEN [thrown |-> FALSE, rows |-> parseCSV(file.content.text),
                           message |-> ""]
                     ELSE IF excel THEN parseExcel(file.content)
                     ELSE [thrown |-> FALSE, rows |-> <<>>, message |-> ""]
       IN  /\ text' = IF csv THEN file.content.text ELSE text
           /\ IF parsed.thrown
              THEN /\ promise' = Settle(promise, "rejected",
                                        [message |-> ParseFailed \o parsed.message])
                   /\ UNCHANGED <<heap, data, processedData, dataType, variables>>
              ELSE LET heap1  == heap \o parsed.rows
                       data1  == [i \in 1..Len(parsed.rows) |-> Len(heap) + i]
                       result == preprocessData(heap1, data1)
                       type   == detectDataType(result.heap, result.data)
                       infos  == analyzeVariables(result.heap, result.data)
                   IN  /\ heap' = result.heap
                       /\ data' = data1
                       /\ processedData' = result.data
                       /\ dataType' = type
                       /\ variables' = infos
                       /\ promise' = Settle(promise, "fulfilled",
                                            [rawData    |-> result.data,
                                             variables  |-> infos,
                                             dataType   |-> type.dataType,
                                             confidence |-> type.confidence])
    /\ reader' = "done"
    /\ pc' = "done"
    /\ UNCHANGED <<config, summary, file, recommendVars, detectionVars, editorVars>>

\* reader.onerror
ReaderOnError ==
    /\ pc = "reading"
    /\ file.error # ""
    /\ promise' = Settle(promise, "rejected", [message |-> ReadFailed])
    /\ reader' = "done"
    /\ pc' = "done"
    /\ UNCHANGED <<heap, data, variables, config, processedData, summary,
                   dataType, text, file, recommendVars, detectionVars, editorVars>>

NextUpload == ParseFile \/ ReaderOnLoad \/ ReaderOnError

SpecUpload == InitUpload /\ [][NextUpload]_vars

\* ------------------------------------------------------ method recommender

\* The records the recommender pushes, by name and confidence (in units of
\* 1 / Scale); their descriptive fields are fixed texts.
FixedEffects == [name |-> "fixed effects", confidence |-> (9 * Scale) \div 10]

RandomEffects == [name |-> "random effects", confidence |-> (85 * Scale) \div 100]

OrdinaryLeastSquares == [name |-> "OLS", confidence |-> (8 * Scale) \div 10]

TwoStageLeastSquares == [name |-> "2SLS", confidence |-> (85 * Scale) \div 100]

TimeSeriesAnalysis ==
    [name |-> "time series analysis", confidence |-> (85 * Scale) \div 100]

\* Mutant of recommendMethodsByDataStructure: the list is ranked by
\* confidence before it is returned.
recommendMethodsByDataStructure_Ranked(info) ==
    (IF info.dataType = "panel" THEN <<FixedEffects, RandomEffects>> ELSE <<>>)
    \o (IF info.dataType = "cross_section"
        THEN (IF info.hasInstrumental THEN <<TwoStageLeastSquares>> ELSE <<>>)
               \o <<OrdinaryLeastSquares>>
        ELSE <<>>)
    \o (IF info.dataType = "time_series" THEN <<TimeSeriesAnalysis>> ELSE <<>>)

\* recommendMethodsByDataStructure: three tests in a row, each pushing onto
\* the list.
recommendMethodsByDataStructure(info) ==
    (IF info.dataType = "panel" THEN <<FixedEffects, RandomEffects>> ELSE <<>>)
    \o (IF info.dataType = "cross_section"
        THEN <<OrdinaryLeastSquares>>
               \o (IF info.hasInstrumental THEN <<TwoStageLeastSquares>> ELSE <<>>)
        ELSE <<>>)
    \o (IF info.dataType = "time_series" THEN <<TimeSeriesAnalysis>> ELSE <<>>)

\* The arguments of a call: the three data types, null, and values the
\* recommender does not know.
DataInfos ==
    [dataType          : {"panel", "cross_section", "time_series", "null",
                          "cross", "time", "other"},
     hasInstrumental   : BOOLEAN,
     hasMediator       : BOOLEAN,
     hasModerator      : BOOLEAN,
     hasGroupVariable  : BOOLEAN,
     hasTimeVariable   : BOOLEAN,
     hasEntityVariable : BOOLEAN,
     sampleSize        : {0, 100}]

InitRecommend ==
    /\ heap = <<>>
    /\ data = <<>>
    /\ variables = <<>>
    /\ config = NoConfig
    /\ processedData = <<>>
    /\ summary = [missingValues |-> EmptySummary, outliers |-> EmptySummary,
                  standardization |-> EmptyParams]
    /\ pc = "recommend"
    /\ UploadIdle
    /\ DetectionIdle
    /\ EditorIdle
    /\ dataInfo \in DataInfos
    /\ recommendations = <<>>

Recommend ==
    /\ pc = "recommend"
    /\ recommendations' = recommendMethodsByDataStructure(dataInfo)
    /\ pc' = "recommended"
    /\ UNCHANGED <<heap, data, variables, config, processedData, summary,
                   uploadVars, dataInfo, detectionVars, editorVars>>

NextRecommend == Recommend

SpecRecommend == InitRecommend /\ [][NextRecommend]_vars

\* --------------------------------------------------- order of the variables
\* preprocessDataAdvanced called with the variables in any order, and the
\* missing-value method remove.

\* The orders a list can be passed in.
Orderings(list) ==
    {[i \in 1..Len(list) |-> list[p[i]]] : p \in Permutations(1..Len(list))}

RemoveConfigs ==
    {c \in MissingStageConfigs :
        /\ c.missingValue.method = "remove"
        /\ c.missingValue.threshold \in {DefaultThreshold, Scale}}

InitRemove ==
    /\ \E n \in 1..MaxRows : heap \in [1..n -> RowSet]
    /\ data = [i \in 1..Len(heap) |-> i]
    /\ variables \in Orderings(analyzeVariables(heap, data))
    /\ config \in RemoveConfigs
    /\ processedData = data
    /\ summary = [missingValues |-> EmptySummary, outliers |-> EmptySummary,
                  standardization |-> EmptyParams]
    /\ pc = "missing"
    /\ UploadIdle
    /\ RecommendIdle
    /\ DetectionIdle
    /\ EditorIdle

SpecRemove == InitRemove /\ [][Next]_vars

\* ------------------------------------------------------- outlier detection
\* detectOutliersIQR called on its own with a list of numbers.

MaxValues == 5

\* The numbers a list may hold.
SampleValues == {1 * Scale, 2 * Scale, 3 * Scale, 4 * Scale, 100 * Scale}

\* The thresholds of a call: 1.5 and 1.
SampleThresholds == {(3 * Scale) \div 2, Scale}

InitIQR ==
    /\ heap = <<>>
    /\ data = <<>>
    /\ variables = <<>>
    /\ config = NoConfig
    /\ processedData = <<>>
    /\ summary = [missingValues |-> EmptySummary, outliers |-> EmptySummary,
                  standardization |-> EmptyParams]
    /\ pc = "detectIQR"
    /\ UploadIdle
    /\ RecommendIdle
    /\ EditorIdle
    /\ \E n \in 0..MaxValues : iqrValues \in [1..n -> SampleValues]
    /\ iqrThreshold \in SampleThresholds
    /\ iqrIndices = <<>>

\* detectOutliersIQR(values, threshold): the sort is made on a copy, so the
\* list passed in is as it was.
DetectOutliersIQR ==
    /\ pc = "detectIQR"
    /\ iqrIndices' = detectOutliersIQR(iqrValues, iqrThreshold)
    /\ pc' = "detectedIQR"
    /\ UNCHANGED <<heap, data, variables, config, processedData, summary,
                   uploadVars, recommendVars, iqrValues, iqrThreshold, editorVars>>

NextIQR == DetectOutliersIQR

SpecIQR == InitIQR /\ [][NextIQR]_vars

\* ------------------------------------------------------- the editor: upload
\* DataAnalysisEditor.  Its processedData state is what the server returned;
\* the model keeps the variables of it in `variables` (<<>> while
\* processedData is null).

\* A VariableInfo as the server reports it.
Variable(name, type) ==
    [name |-> name, type |-> type,
     stats |-> [min |-> 0, max |-> 9 * Scale, missing |-> 0]]

\* The variable lists of the data sets uploaded.
UploadedVariables ==
    {<<Variable("x", type), Variable("y", "numeric"), Variable("c", "categorical")>> :
        type \in {"numeric", "dummy"}}

\* type DataType = 'cross' | 'panel' | 'time'
DataTypes == {"cross", "panel", "time"}

\* interface DataTypeInfo
DataTypeInfos == [type : DataTypes, confidence : {(7 * Scale) \div 10, (9 * Scale) \div 10}]

\* The files the user may pick.
UploadFiles ==
    {[name |-> "d.csv", type |-> "text/csv"],
     [name |-> "d.xlsx",
      type |-> "application/vnd.openxmlformats-officedocument.spreadsheetml.sheet"],
     [name |-> "d.txt", type |-> "text/plain"]}

AllowedTypes ==
    {"application/vnd.ms-excel",
     "application/vnd.openxmlformats-officedocument.spreadsheetml.sheet",
     "text/csv"}

\* What the server may answer: no data, or a data set with or without a
\* detected data type.
Responses ==
    {[data |-> FALSE, variables |-> <<>>, preview |-> "",
      detectedDataType |-> NoDetectedType]}
    \cup [data : {TRUE}, variables : UploadedVariables, preview : {"preview"},
          detectedDataType : DataTypeInfos \cup {NoDetectedType}]

\* variables.some(v => v.type === type)
SomeOfType(list, type) == \E i \in 1..Len(list) : list[i].type = type

\* The DataInfo handleFileUpload builds from a response.
DataInfoOf(response) ==
    [dataType          |-> response.detectedDataType.type,
     hasInstrumental   |-> FALSE,
     hasMediator       |-> FALSE,
     hasModerator      |-> FALSE,
     hasGroupVariable  |-> SomeOfType(response.variables, "categorical"),
     hasTimeVariable   |-> SomeOfType(response.variables, "time"),
     hasEntityVariable |-> SomeOfType(response.variables, "id"),
     sampleSize        |-> 0]

InitEditor ==
    /\ heap = <<>>
    /\ data = <<>>
    /\ variables = <<>>
    /\ config = FullConfig
    /\ processedData = <<>>
    /\ summary = [missingValues |-> EmptySummary, outliers |-> EmptySummary,
                  standardization |-> EmptyParams]
    /\ pc = "editor"
    /\ UploadIdle
    /\ RecommendIdle
    /\ DetectionIdle
    /\ EditorIdle

\* handleFileUpload up to its await: the file type is checked, and the
\* request is sent.  The button is disabled while uploading.
HandleFileUpload ==
    /\ pc = "editor"
    /\ ~uploading
    /\ \E picked \in UploadFiles :
          IF picked.type \notin AllowedTypes
          THEN /\ message' = "error"
               /\ UNCHANGED <<uploading, currentFile>>
          ELSE /\ uploading' = TRUE
               /\ currentFile' = picked.name
               /\ UNCHANGED message
    /\ UNCHANGED <<heap, data, variables, config, processedData, summary, pc,
                   uploadVars, recommendVars, detectionVars, editorDataType,
                   selectedVariables, detectedDataType, methodRecommendations,
                   dataPreview>>

\* handleFileUpload after its await, the request answered.  Reading
\* detectedDataType.type of an answer without a detected type throws into
\* the catch clause, after processedData and dataPreview have been set.
UploadResponse ==
    /\ pc = "editor"
    /\ uploading
    /\ \E response \in Responses :
          IF ~response.data
          THEN UNCHANGED <<variables, dataPreview, detectedDataType, editorDataType,
                           methodRecommendations, currentFile, message>>
          ELSE /\ variables' = response.variables
               /\ dataPreview' = response.preview
               /\ IF response.detectedDataType # NoDetectedType
                  THEN /\ detectedDataType' = response.detectedDataType
                       /\ editorDataType' = response.detectedDataType.type
                       /\ methodRecommendations' =
                             recommendMethodsByDataStructure(DataInfoOf(response))
                       /\ message' = "success"
                       /\ UNCHANGED currentFile
                  ELSE /\ message' = "error"
                       /\ currentFile' = "null"
                       /\ UNCHANGED <<detectedDataType, editorDataType,
                                      methodRecommendations>>
    /\ uploading' = FALSE
    /\ UNCHANGED <<heap, data, config, processedData, summary, pc,
                   uploadVars, recommendVars, detectionVars, selectedVariables>>

\* handleFileUpload after its await, the request failed.
UploadError ==
    /\ pc = "editor"
    /\ uploading
    /\ message' = "error"
    /\ currentFile' = "null"
    /\ uploading' = FALSE
    /\ UNCHANGED <<heap, data, variables, config, processedData, summary, pc,
                   uploadVars, recommendVars, detectionVars, editorDataType,
                   selectedVariables, detectedDataType, methodRecommendations,
                   dataPreview>>

\* handleDataTypeChange: the radio group.
HandleDataTypeChange ==
    /\ pc \in {"editor", "selection"}
    /\ \E value \in DataTypes \ {editorDataType} : editorDataType' = value
    /\ UNCHANGED <<heap, data, variables, config, processedData, summary, pc,
                   uploadVars, recommendVars, detectionVars, selectedVariables,
                   uploadStateVars>>

NextEditor == HandleFileUpload \/ UploadResponse \/ UploadError \/ HandleDataTypeChange

SpecEditor == InitEditor /\ [][NextEditor]_vars

\* ---------------------------------------------------- the editor: selection
\* VariableSelection, rendered with the editor's processedData.variables and
\* selectedVariables, and setSelectedVariables as onVariableChange.  A
\* handler returns the arguments of the calls it makes to onVariableChange,
\* in order; every one is computed from the selectedVars of the render the
\* handler belongs to.

\* The roles chosen in a single-valued and in a multiple selector.
SingleRoles == {"time", "id", "dependent"}

MultipleRoles ==
    {"independent", "control", "instrumental", "moderator", "mediator", "dummy",
     "grouping"}

\* Mutant of WithRole: choosing the grouping role retypes the variable.
WithRole_Retyped(variable, role) ==
    [name |-> variable.name,
     type |-> IF role = "grouping" THEN "categorical" ELSE variable.type,
     stats |-> variable.stats, role |-> role]

\* { ...variable, role }
WithRole(variable, role) ==
    [name |-> variable.name, type |-> variable.type, stats |-> variable.stats,
     role |-> role]

\* list.findIndex(v => v.name === varName), counted from 1; 0 when none.
findIndex(list, varName) ==
    IF \E i \in 1..Len(list) : list[i].name = varName
    THEN CHOOSE i \in 1..Len(list) :
            /\ list[i].name = varName
            /\ \A j \in 1..(i - 1) : list[j].name # varName
    ELSE 0

handleVariableChange(list, selectedVars, varName, role) ==
    LET found == findIndex(list, varName)
        existingIndex == findIndex(selectedVars, varName)
    IN  IF found = 0 THEN <<>>
        ELSE IF existingIndex > 0
        THEN <<[selectedVars EXCEPT ![existingIndex] = WithRole(list[found], role)]>>
        ELSE <<Append(selectedVars, WithRole(list[found], role))>>

handleRemoveVariable(selectedVars, varName) ==
    <<SelectSeq(selectedVars, LAMBDA v : v.name # varName)>>

\* selectedVars.filter(v => v.role === role)
HoldersOf(selectedVars, role) == SelectSeq(selectedVars, LAMBDA v : v.role = role)

\* The value a selector shows: the names of the holders of its role.
ValueOf(selectedVars, role) ==
    LET holders == HoldersOf(selectedVars, role)
    IN  [i \in 1..Len(holders) |-> holders[i].name]

\* selectedVars.find(v => v.role === role)?.name || ''
FirstNameOf(selectedVars, role) ==
    LET shown == ValueOf(selectedVars, role)
    IN  IF shown = <<>> THEN "" ELSE shown[1]

\* The names a role's selector offers.
OptionsOf(list, role) ==
    {list[i].name : i \in
        {j \in 1..Len(list) :
            CASE role = "dependent" -> list[j].type = "numeric"
              [] role = "dummy" ->
                    \/ list[j].type = "dummy"
                    \/ /\ list[j].type = "numeric"
                       /\ list[j].stats.min = 0
                       /\ list[j].stats.max = 1 * Scale
              [] OTHER -> TRUE}}

\* onChange of a single-valued selector; value is "" when it is cleared.
SingleOnChange(list, selectedVars, role, value) ==
    IF value # ""
    THEN handleVariableChange(list, selectedVars, value, role)
    ELSE handleRemoveVariable(selectedVars, FirstNameOf(selectedVars, role))

\* toAdd.forEach(value => handleVariableChange(value, role))
RECURSIVE AddEach(_, _, _, _)
AddEach(list, selectedVars, toAdd, role) ==
    IF toAdd = <<>> THEN <<>>
    ELSE handleVariableChange(list, selectedVars, Head(toAdd), role)
           \o AddEach(list, selectedVars, Tail(toAdd), role)

\* toRemove.forEach(v => handleRemoveVariable(v.name))
RECURSIVE RemoveEach(_, _)
RemoveEach(selectedVars, toRemove) ==
    IF toRemove = <<>> THEN <<>>
    ELSE handleRemoveVariable(selectedVars, Head(toRemove).name)
           \o RemoveEach(selectedVars, Tail(toRemove))

\* onChange of a multiple selector.
MultipleOnChange(list, selectedVars, role, newValues) ==
    LET current  == HoldersOf(selectedVars, role)
        toRemove == SelectSeq(current,
                       LAMBDA v : \A i \in 1..Len(newValues) : newValues[i] # v.name)
        toAdd    == SelectSeq(newValues,
                       LAMBDA value : \A i \in 1..Len(current) : current[i].name # value)
    IN  RemoveEach(selectedVars, toRemove) \o AddEach(list, selectedVars, toAdd, role)

\* The selectedVariables state after the calls of one event: each call
\* replaces the state, so the last one stands.
setSelectedVariables(selectedVars, calls) ==
    IF calls = <<>> THEN selectedVars ELSE calls[Len(calls)]

\* s without its i-th entry.
Without(s, i) == SubSeq(s, 1, i - 1) \o SubSeq(s, i + 1, Len(s))

\* The lists a multiple selector may report after one user action on the
\* list shown: one more name, one name less, or none (allowClear).
NewValuesOf(shown, options) ==
    {Append(shown, name) : name \in options \ {shown[i] : i \in 1..Len(shown)}}
    \cup {Without(shown, i) : i \in 1..Len(shown)}
    \cup (IF shown = <<>> THEN {} ELSE {<<>>})

\* The editor holds a data set, nothing is selected yet.
InitSelection ==
    /\ heap = <<>>
    /\ data = <<>>
    /\ variables \in UploadedVariables
    /\ config = FullConfig
    /\ processedData = <<>>
    /\ summary = [missingValues |-> EmptySummary, outliers |-> EmptySummary,
                  standardization |-> EmptyParams]
    /\ pc = "selection"
    /\ UploadIdle
    /\ RecommendIdle
    /\ DetectionIdle
    /\ editorDataType \in DataTypes
    /\ selectedVariables = <<>>
    /\ detectedDataType = [type |-> editorDataType, confidence |-> (9 * Scale) \div 10]
    /\ methodRecommendations = <<>>
    /\ uploading = FALSE
    /\ currentFile = "d.csv"
    /\ dataPreview = "preview"
    /\ message = "success"

\* A name is picked in the time, id or dependent selector (the first two
\* are rendered unless the data type is cross), or the selector is cleared.
SingleSelect ==
    /\ pc = "selection"
    /\ \E role \in SingleRoles :
          /\ role \in {"time", "id"} => editorDataType # "cross"
          /\ \E value \in (OptionsOf(variables, role) \cup {""})
                            \ {FirstNameOf(selectedVariables, role)} :
                selectedVariables' =
                   setSelectedVariables(selectedVariables,
                      SingleOnChange(variables, selectedVariables, role, value))
    /\ UNCHANGED <<heap, data, variables, config, processedData, summary, pc,
                   uploadVars, recommendVars, detectionVars, editorDataType,
                   uploadStateVars>>

\* The list of a multiple selector is changed.
MultipleSelect ==
    /\ pc = "selection"
    /\ \E role \in MultipleRoles :
          \E newValues \in NewValuesOf(ValueOf(selectedVariables, role),
                                       OptionsOf(variables, role)) :
             selectedVariables' =
                setSelectedVariables(selectedVariables,
                   MultipleOnChange(variables, selectedVariables, role, newValues))
    /\ UNCHANGED <<heap, data, variables, config, processedData, summary, pc,
                   uploadVars, recommendVars, detectionVars, editorDataType,
                   uploadStateVars>>

NextSelection == SingleSelect \/ MultipleSelect \/ HandleDataTypeChange

SpecSelection == InitSelection /\ [][NextSelection]_vars

\* ----------------------------------------------------------------- claims

\* The number of missing cells of column v in the table data.
NullCells(h, d, v) == Cardinality({i \in 1..Len(d) : h[d[i]][v] = Null})

\* The names of the variables whose analyzed type is numeric.
NumericNames ==
    {variables[i].name : i \in {j \in 1..Len(variables) : variables[j].type = "numeric"}}

\* The names of the variables of any other type.
OtherNames == ColumnSet \ NumericNames

\* The number of values the configured detection rule flags.
DetectedCount(values, cfg) ==
    IF cfg.method = "zscore" THEN Len(detectOutliersZScore(values, cfg.threshold))
    ELSE Len(detectOutliersIQR(values, cfg.threshold))

\* C1: the stages run in the order missing-value, outlier, standardization,
\* and each works on the table the stage before it left: the outlier stage
\* counts the outliers among the values left by the missing-value stage,
\* which hold no missing cell of a column that stage treated, and the
\* standardization parameters are the statistics of the values left by the
\* outlier stage.
C1_StagesChain ==
    [][/\ pc = "missing" => pc' = "outlier"
       /\ pc = "outlier" => pc' = "standardize"
       /\ pc = "standardize" => pc' = "done"
       /\ (pc = "outlier" /\ config.outlier.method # "none") =>
            \A v \in NumericNames :
               LET values == ColumnValues(heap, processedData, v)
               IN  /\ summary'.outliers[v].count = DetectedCount(values, config.outlier)
                   /\ summary.missingValues[v].method \in {"mean", "median", "remove"}
                        => Len(values) = Len(processedData)
       /\ (pc = "standardize" /\ config.standardization.method = "zscore") =>
            \A v \in NumericNames :
               LET values == ColumnValues(heap, processedData, v)
               IN  summary'.standardization[v].params =
                     [mean |-> Num(calculateMean(values)),
                      std  |-> Num(calculateStd(values))]
       /\ (pc = "standardize" /\ config.standardization.method = "minmax") =>
            \A v \in NumericNames :
               LET values == ColumnValues(heap, processedData, v)
               IN  summary'.standardization[v].params =
                     [min |-> MathMin(values), max |-> MathMax(values)]
      ]_vars

\* C1 witness: all three stages ran, the first imputed a cell of x, the
\* second found an outlier in x, the third standardized x.
C1_Witness ==
    /\ pc = "done"
    /\ summary.missingValues["x"].method = "mean"
    /\ summary.missingValues["x"].count > 0
    /\ summary.outliers["x"].count > 0
    /\ summary.standardization["x"].method = "zscore"

\* C2: the call leaves every row of the caller's table as it was.
C2_InputRowsUnchanged ==
    [][\A i \in 1..Len(data) : heap'[data[i]] = heap[data[i]]]_vars

\* C3: in the missing-value stage a numeric column is skipped if and only if
\* its missing ratio is strictly greater than the configured threshold, the
\* threshold 0 included.  (Under `remove` the ratio of a later column is
\* taken after rows were dropped, so only the first numeric column is
\* compared there.)
C3_SkipIffRatioExceeds ==
    [][(pc = "missing" /\ config.missingValue.method # "none") =>
         \A i \in 1..Len(variables) :
            (/\ variables[i].type = "numeric"
             /\ \/ config.missingValue.method # "remove"
                \/ \A j \in 1..(i - 1) : variables[j].type # "numeric")
            => LET v == variables[i].name
               IN  (summary'.missingValues[v].method = "skip")
                     <=> (NullCells(heap, processedData, v) * Scale
                            > config.missingValue.threshold * Len(processedData))
      ]_vars

\* The set of the elements of a sequence.
Range(s) == {s[i] : i \in 1..Len(s)}

\* The table handleMissingValues holds when it comes to variables[i]: the
\* one left by the variables before it.
ExaminedAt(i) ==
    handleMissingValues(heap, processedData, SubSeq(variables, 1, i - 1),
                        config.missingValue)

IsMeanOf(m, values) ==
    IF Len(values) = 0 THEN m = 0
    ELSE 2 * Abs(Len(values) * m - SumSeq(values)) <= Len(values)

\* The k-th smallest of values, by counting.
KthSmallest(values, k) ==
    CHOOSE a \in Range(values) :
       /\ Cardinality({i \in 1..Len(values) : values[i] < a}) < k
       /\ Cardinality({i \in 1..Len(values) : values[i] <= a}) >= k

\* m is the median of values: the middle one of an odd number of them, the
\* midpoint of the middle two of an even number.
IsMedianOf(m, values) ==
    LET n == Len(values)
    IN  IF n = 0 THEN m = 0
        ELSE IF n % 2 = 1 THEN m = KthSmallest(values, (n + 1) \div 2)
        ELSE Abs(2 * m - (KthSmallest(values, n \div 2)
                            + KthSmallest(values, (n \div 2) + 1))) <= 1

\* C5: with method mean (median), in every numeric column that is not
\* skipped each null cell becomes the mean (median) of the column's non-null
\* cells, every other cell and the number of rows stay, no null remains and
\* the recorded count is the number of cells replaced.
C5_ImputationFillsNulls ==
    [][(pc = "missing" /\ config.missingValue.method \in {"mean", "median"}) =>
         \A v \in NumericNames :
            summary'.missingValues[v].method # "skip" =>
               LET values == ColumnValues(heap, processedData, v)
               IN  /\ summary'.missingValues[v] =
                        [method |-> config.missingValue.method,
                         count  |-> NullCells(heap, processedData, v)]
                   /\ Len(processedData') = Len(processedData)
                   /\ NullCells(heap', processedData', v) = 0
                   /\ \A i \in 1..Len(processedData) :
                         LET before == heap[processedData[i]][v]
                             after  == heap'[processedData'[i]][v]
                         IN  IF before # Null THEN after = before
                             ELSE /\ after.k = "num"
                                  /\ IF config.missingValue.method = "mean"
                                     THEN IsMeanOf(after.v, values)
                                     ELSE IsMedianOf(after.v, values)
      ]_vars

\* C5 witness: the null of x = [null, 0, 0, 9] was replaced by the median 0,
\* which is not the mean.
C5_Witness ==
    /\ pc = "outlier"
    /\ summary.missingValues["x"] = [method |-> "median", count |-> 1]
    /\ ColumnValues(heap, data, "x") = <<0, 0, 9 * Scale>>
    /\ ColumnValues(heap, processedData, "x") = <<0, 0, 0, 9 * Scale>>

\* The rows dropped for the columns removed, summed over the columns.
RemovedTotal(s) ==
    SumSeq([i \in 1..Len(Columns) |->
              IF s[Columns[i]].method = "remove" THEN s[Columns[i]].count ELSE 0])

\* C6: with method remove, after the stage no remaining row has a null in a
\* numeric column that was not skipped, the remaining rows are unmodified
\* input rows in their original order, every dropped row had a null in such
\* a column, the recorded counts sum to the number of rows dropped, and the
\* later stages receive (and return) the shrunken table.
C6_RemoveDropsRows ==
    [][/\ (pc = "missing" /\ config.missingValue.method = "remove") =>
            LET treated == {v \in NumericNames : summary'.missingValues[v].method = "remove"}
                kept    == Range(processedData')
            IN  /\ \A v \in NumericNames :
                      summary'.missingValues[v].method \in {"remove", "skip"}
                /\ \A i \in 1..Len(processedData') : \A v \in treated :
                      heap'[processedData'[i]][v] # Null
                /\ processedData' = SelectSeq(processedData, LAMBDA ref : ref \in kept)
                /\ \A ref \in kept : heap'[ref] = heap[ref]
                /\ \A i \in 1..Len(processedData) :
                      processedData[i] \notin kept =>
                         \E v \in treated : heap[processedData[i]][v] = Null
                /\ RemovedTotal(summary'.missingValues)
                     = Len(processedData) - Len(processedData')
       /\ (pc \in {"outlier", "standardize"} /\ config.missingValue.method = "remove") =>
            /\ processedData' = processedData
            /\ Len(processedData) = Len(data) - RemovedTotal(summary.missingValues)
      ]_vars

\* C6 witness: rows were dropped for both numeric columns and the later
\* stages ran on what was left.
C6_Witness ==
    /\ pc = "done"
    /\ config.missingValue.method = "remove"
    /\ summary.missingValues["x"] = [method |-> "remove", count |-> 1]
    /\ summary.missingValues["y"] = [method |-> "remove", count |-> 1]
    /\ Len(processedData) = Len(data) - 2
    /\ summary.outliers["x"].method = "zscore"
    /\ summary.standardization["x"].method = "minmax"

\* The configured detection rule flags the value among values.
IsFlagged(value, values, cfg) ==
    LET flagged == IF cfg.method = "zscore"
                   THEN detectOutliersZScore(values, cfg.threshold)
                   ELSE detectOutliersIQR(values, cfg.threshold)
    IN  \E j \in Range(flagged) : values[j] = value

\* The bound an outlier is clamped to.
ClampBound(value, values, threshold) ==
    IF value > calculateMean(values)
    THEN calculateMean(values) + Mul(threshold, calculateStd(values))
    ELSE calculateMean(values) - Mul(threshold, calculateStd(values))

\* C7: the outlier stage clamps and never removes: in each numeric column
\* the cells it changes are exactly the cells whose value the detection rule
\* flags, each set to mean + threshold*std (above the mean) or
\* mean - threshold*std; every other cell, missing cells included, and the
\* rows stay, and the recorded count is the number of cells changed.
C7_ClampsExactlyFlagged ==
    [][(pc = "outlier" /\ config.outlier.method # "none") =>
         /\ processedData' = processedData
         /\ \A v \in OtherNames : \A i \in 1..Len(processedData) :
               heap'[processedData[i]][v] = heap[processedData[i]][v]
         /\ \A v \in NumericNames :
               LET values == ColumnValues(heap, processedData, v)
               IN  /\ \A i \in 1..Len(processedData) :
                         LET before == heap[processedData[i]][v]
                         IN  heap'[processedData[i]][v] =
                               IF before # Null /\ IsFlagged(before.v, values, config.outlier)
                               THEN Num(ClampBound(before.v, values, config.outlier.threshold))
                               ELSE before
                   /\ summary'.outliers[v].count =
                        Cardinality({i \in 1..Len(processedData) :
                           heap'[processedData[i]][v] # heap[processedData[i]][v]})
      ]_vars

\* C8: after standardization, a numeric column whose values were all equal
\* (z-score with std = 0, min-max with max = min) holds 0 in every non-null
\* cell, never NaN.
C8_ZeroVarianceGivesZero ==
    pc = "done" =>
       \A v \in NumericNames :
          LET e == summary.standardization[v]
          IN  (\/ e.method = "zscore" /\ e.params.std = Num(0)
               \/ e.method = "minmax" /\ e.params.max = e.params.min)
              => \A i \in 1..Len(processedData) :
                    heap[processedData[i]][v] \in {Null, Num(0)}

\* The tolerance, in fixed-point units, mean 0 and std 1 are met with.
Tolerance == Scale \div 100

\* C9: z-score standardization of a numeric column with nonzero variance
\* leaves non-null values of mean 0 and population standard deviation 1
\* (within the tolerance); the recorded mean and std are those of the column
\* before the transform, and each cell is (x - mean) / std with them.
C9_ZScoreNormalizes ==
    [][(pc = "standardize" /\ config.standardization.method = "zscore") =>
         \A v \in NumericNames :
            LET pre  == ColumnValues(heap, processedData, v)
                post == ColumnValues(heap', processedData', v)
                mean == summary'.standardization[v].params.mean.v
                std  == summary'.standardization[v].params.std.v
                variance == calculateMean([i \in 1..Len(pre) |-> Square(pre[i] - mean)])
            IN  /\ summary'.standardization[v].method = "zscore"
                /\ IsMeanOf(mean, pre)
                /\ std >= 0 /\ Abs(std * std - variance * Scale) <= std
                /\ (\E i, j \in 1..Len(pre) : pre[i] # pre[j]) =>
                     /\ std > 0
                     /\ Len(post) = Len(pre)
                     /\ \A i \in 1..Len(processedData) :
                           LET before == heap[processedData[i]][v]
                               after  == heap'[processedData'[i]][v]
                           IN  IF before = Null THEN after = Null
                               ELSE /\ after.k = "num"
                                    /\ 2 * Abs(after.v * std - (before.v - mean) * Scale)
                                         <= std
                     /\ Abs(calculateMean(post)) <= Tolerance
                     /\ Abs(calculateStd(post) - Scale) <= Tolerance
      ]_vars

\* C9 witness: x, which held a missing cell and two different values, was
\* standardized by z-score with a nonzero std.
C9_Witness ==
    /\ pc = "done"
    /\ summary.standardization["x"].method = "zscore"
    /\ summary.standardization["x"].params.std # Num(0)
    /\ NullCells(heap, processedData, "x") = 1
    /\ Len(ColumnValues(heap, processedData, "x")) = 3

\* C10: no stage touches a column whose analyzed type is not numeric: in
\* every row a stage returns, the cells of such a column are those of the
\* row it came from, and no summary gets an entry for it.
C10_OtherColumnsUntouched ==
    [][\A v \in OtherNames :
          /\ summary'.missingValues[v] = Absent
          /\ summary'.outliers[v] = Absent
          /\ summary'.standardization[v] = NoParams
          /\ IF Len(processedData') = Len(processedData)
             THEN \A i \in 1..Len(processedData) :
                     heap'[processedData'[i]][v] = heap[processedData[i]][v]
             ELSE /\ Range(processedData') \subseteq Range(processedData)
                  /\ \A ref \in Range(processedData') : heap'[ref][v] = heap[ref][v]
      ]_vars

\* C10 witness: all three stages ran over a table whose column x is a dummy
\* with a missing cell, and whose numeric column y was imputed.
C10_Witness ==
    /\ pc = "done"
    /\ variables[1].name = "x" /\ variables[1].type = "dummy"
    /\ NullCells(heap, processedData, "x") > 0
    /\ Len(ColumnValues(heap, processedData, "x")) > 0
    /\ summary.missingValues["y"].method = "mean"
    /\ summary.missingValues["y"].count > 0
    /\ config.outlier.method # "none"
    /\ config.standardization.method # "none"

\* The rows of a table, by value.
Table(h, d) == [i \in 1..Len(d) |-> h[d[i]]]

\* C11: the normalization pass is idempotent: preprocessData applied to a
\* table it has produced returns the same table, cell for cell and kind for
\* kind.
C11_NormalizationIdempotent ==
    [][pc = "repeat" /\ pc' = "repeated"
         => Table(heap', processedData') = Table(heap, processedData)]_vars

\* What the ordered rule makes of each cell a parser may deliver: missing
\* for the three empty values, the number for a numeric string (also when
\* it is a date as well), a date for a date string, the string itself
\* otherwise.
IsNormalOf(after, before) ==
    CASE before \in {Str(<<>>), Null, Undefined} -> after = Null
      [] before = Str(<<"0">>)  -> after = Num(0)
      [] before = Str(<<"1">>)  -> after = Num(1 * Scale)
      [] before = Str(<<"5">>)  -> after = Num(5 * Scale)
      [] before = Str(YearText) -> after = Num(9 * Scale)
      [] before = Str(DateText) -> after = Date(5)
      [] OTHER                  -> after = before

\* C12: preprocessData maps every cell by the ordered rule (empty values to
\* null, then numbers, then dates, else the same string; the number wins
\* over the date) and keeps the row count and every row's column names.
C12_CellsByOrderedRule ==
    [][pc = "preprocess" /\ pc' = "detect"
         => /\ Len(processedData') = Len(data)
            /\ \A i \in 1..Len(data) :
                  LET before == heap[data[i]]
                      after  == heap'[processedData'[i]]
                  IN  /\ DOMAIN after = DOMAIN before
                      /\ \A key \in DOMAIN before :
                            IsNormalOf(after[key], before[key])]_vars

\* A table with a string that is a number and a date, a date string, an
\* empty string and an undefined cell has been normalized.
C12_Witness ==
    /\ pc = "detect"
    /\ Len(processedData) = 4
    /\ heap[data[1]]["x"] = Str(YearText) /\ heap[processedData[1]]["x"].k = "num"
    /\ heap[data[2]]["x"] = Str(DateText) /\ heap[processedData[2]]["x"].k = "date"
    /\ heap[data[3]]["x"] = Str(<<>>) /\ heap[processedData[3]]["x"] = Null
    /\ heap[data[4]]["x"] = Undefined /\ heap[processedData[4]]["x"] = Null

\* The type the classification rule gives a column of a normalized table,
\* whose values are numbers, dates, strings and null: a value is numeric
\* when it is a number, and date-parsable when it is a date.
TypeByRule(cells) ==
    LET values  == {i \in 1..Len(cells) : cells[i] # Null}
        numeric == {i \in values : cells[i].k = "num"}
    IN  IF numeric = values /\ \A i \in values : cells[i].v \in {0, 1 * Scale}
        THEN "dummy"
        ELSE IF 10 * Cardinality(numeric) > 8 * Cardinality(values)
        THEN "numeric"
        ELSE IF \A i \in values : cells[i].k = "date"
        THEN "date"
        ELSE "categorical"

\* The cells of column v of table d, row by row.
CellsOfColumn(h, d, v) == [i \in 1..Len(d) |-> h[d[i]][v]]

\* C13: analyzeVariables returns one VariableInfo per column of the first
\* row, in first-row key order, and gives each column the type of the first
\* matching rule over its non-null values: dummy (all numeric, each 0 or 1),
\* numeric (more than 0.8 numeric), date (all date-parsable), categorical.
C13_ClassifiedByRule ==
    [][pc = "analyze" /\ pc' = "repeat"
         => IF Len(processedData) = 0 THEN variables' = <<>>
            ELSE /\ {variables'[i].name : i \in 1..Len(variables')}
                      = DOMAIN heap[processedData[1]]
                 /\ \A i, j \in 1..Len(variables') :
                       i < j =>
                         \E m, n \in 1..Len(KeyOrder) :
                            /\ m < n
                            /\ KeyOrder[m] = variables'[i].name
                            /\ KeyOrder[n] = variables'[j].name
                 /\ \A i \in 1..Len(variables') :
                       variables'[i].type
                         = TypeByRule(CellsOfColumn(heap, processedData,
                                                    variables'[i].name))]_vars

\* C14: for every column analyzeVariables reports, whatever its type,
\* stats.count + stats.missing is the number of rows and stats.missing is the
\* number of rows whose cell in the column is null.
C14_CountPlusMissing ==
    [][pc = "analyze" /\ pc' = "repeat"
         => \A i \in 1..Len(variables') :
               /\ variables'[i].stats.count + variables'[i].stats.missing
                     = Len(processedData)
               /\ variables'[i].stats.missing
                     = NullCells(heap, processedData, variables'[i].name)]_vars

\* A categorical column with two missing cells among four and a numeric
\* column without missing cells have been analyzed.
C14_Witness ==
    /\ pc = "repeat"
    /\ Len(processedData) = 4
    /\ Len(variables) = 3
    /\ variables[1].type = "categorical"
    /\ variables[1].stats.missing = 2 /\ variables[1].stats.count = 2
    /\ variables[2].type = "numeric"
    /\ variables[2].stats.missing = 0 /\ variables[2].stats.count = 4

\* The column names of the model that contain a time token (year, date,
\* time) and those that contain an entity token (id, entity, firm, company,
\* province, city), whatever the case of their letters.
TimeNames == {"Year", "DATE"}

EntityNames == {"firm_id", "valid", "City"}

\* C15: detectDataType gives type null with confidence 0 for an empty table
\* and otherwise decides from the first row's column names: a time token
\* and an entity token give panel (0.9), a time token alone time_series
\* (0.8), everything else cross_section (0.7).
C15_ShapeFromNames ==
    [][pc = "detect" /\ pc' = "analyze"
         => IF Len(processedData) = 0
            THEN dataType' = [dataType |-> "null", confidence |-> 0]
            ELSE LET names  == DOMAIN heap[processedData[1]]
                     time   == names \cap TimeNames # {}
                     entity == names \cap EntityNames # {}
                 IN  dataType' =
                       IF time /\ entity
                       THEN [dataType |-> "panel", confidence |-> 900]
                       ELSE IF time
                       THEN [dataType |-> "time_series", confidence |-> 800]
                       ELSE [dataType |-> "cross_section", confidence |-> 700]]_vars

\* The table with columns firm_id, Year, revenue (followed by a row that has
\* every name) has been detected as panel.
C15_Witness ==
    /\ pc = "analyze"
    /\ Len(processedData) = 2
    /\ DOMAIN heap[processedData[1]] = {"firm_id", "Year", "revenue"}
    /\ dataType = [dataType |-> "panel", confidence |-> 900]

\* The names and confidences of a list of recommendations, in list order.
Ranking(list) == [i \in 1..Len(list) |-> <<list[i].name, list[i].confidence>>]

\* The list the rules give for a data type and the instrument flag.
RankingByRule(type, instrumental) ==
    CASE type = "panel" -> <<<<"fixed effects", 900>>, <<"random effects", 850>>>>
      [] type = "cross_section" /\ instrumental -> <<<<"OLS", 800>>, <<"2SLS", 850>>>>
      [] type = "cross_section" /\ ~instrumental -> <<<<"OLS", 800>>>>
      [] type = "time_series" -> <<<<"time series analysis", 850>>>>
      [] OTHER -> <<>>

\* C16: recommendMethodsByDataStructure returns, for every argument, the
\* list fixed by dataType and hasInstrumental alone, in rule order (never
\* re-sorted by confidence), and the empty list for an unknown dataType.
C16_RecommendationsByRule ==
    /\ pc = "recommend" => ENABLED Recommend
    /\ pc = "recommended"
         => Ranking(recommendations)
              = RankingByRule(dataInfo.dataType, dataInfo.hasInstrumental)

\* A cross-section call with an instrument and every other flag set has
\* returned OLS followed by 2SLS.
C16_Witness ==
    /\ pc = "recommended"
    /\ dataInfo.dataType = "cross_section"
    /\ dataInfo.hasInstrumental /\ dataInfo.hasMediator /\ dataInfo.hasModerator
    /\ dataInfo.hasGroupVariable /\ dataInfo.hasTimeVariable
    /\ dataInfo.hasEntityVariable
    /\ Len(recommendations) = 2
    /\ recommendations[2].name = "2SLS"

\* The pieces of s between the occurrences of the character ch.
Pieces(s, ch) ==
    LET cuts  == {0, Len(s) + 1} \cup {i \in 1..Len(s) : s[i] = ch}
        start == {i \in cuts : i <= Len(s)}
        rank(i) == Cardinality({j \in start : j < i}) + 1
    IN  [k \in 1..Cardinality(start) |->
            LET from == CHOOSE i \in start : rank(i) = k
                to   == CHOOSE j \in cuts : j > from /\ \A c \in cuts : c > from => j <= c
            IN  SubSeq(s, from + 1, to - 1)]

IsBlank(s) == \A i \in 1..Len(s) : s[i] \in {" ", "\n"}

\* s without its leading and trailing white space.
Trimmed(s) ==
    IF IsBlank(s) THEN <<>>
    ELSE LET first == CHOOSE i \in 1..Len(s) :
                         s[i] # " " /\ \A j \in 1..(i - 1) : s[j] = " "
             last  == CHOOSE i \in 1..Len(s) :
                         s[i] # " " /\ \A j \in (i + 1)..Len(s) : s[j] = " "
         IN  SubSeq(s, first, last)

\* C19: for a header line followed by data lines separated by line feeds,
\* parseCSV returns one row per non-blank data line; each row has the
\* header's names as keys, the trimmed field i as the value of header i, and
\* the empty string for a header whose field is absent.
C19_RowPerDataLine ==
    [][pc = "parseCSV" /\ pc' = "parsed"
         => LET lines   == Pieces(text, "\n")
                headers == Pieces(lines[1], ",")
                kept    == SelectSeq(Tail(lines), LAMBDA line : ~IsBlank(line))
            IN  /\ Len(data') = Len(kept)
                /\ \A r \in 1..Len(kept) :
                      LET row    == heap'[data'[r]]
                          fields == Pieces(kept[r], ",")
                      IN  /\ DOMAIN row
                                = {Join(Trimmed(headers[i])) : i \in 1..Len(headers)}
                          /\ \A i \in 1..Len(headers) :
                                \/ \E j \in (i + 1)..Len(headers) :
                                      Trimmed(headers[j]) = Trimmed(headers[i])
                                \/ row[Join(Trimmed(headers[i]))]
                                      = IF i <= Len(fields)
                                        THEN Str(Trimmed(fields[i]))
                                        ELSE Str(<<>>)]_vars

\* C17: parseFile accepts only CSV, XLS and XLSX files: for a file of any
\* other kind no read is ever started and the promise is rejected, never
\* resolved.
C17_OtherKindsRejected ==
    (file.name \in {TxtName, JsonName} /\ pc # "parseFile")
        => /\ reader = "none"
           /\ promise.state = "rejected"

\* The message of the error the read or the parse of the file ends in.
OriginalMessage ==
    IF file.error # "" THEN file.error ELSE file.content.message

\* C18: a call of parseFile settles exactly once and nothing is delivered
\* before; it resolves with normalized rows, variables, data type and
\* confidence that all come from the same parsed table, and it rejects,
\* whenever the read fails or the parse throws, with one error that carries
\* the original error's message.
C18_AllOrNothing ==
    /\ pc = "reading" => promise.state = "pending" /\ promise.settled = 0
    /\ pc = "done" =>
         /\ promise.settled = 1
         /\ promise.state \in {"fulfilled", "rejected"}
         /\ promise.state = "fulfilled" =>
               /\ file.error = ""
               /\ Len(promise.value.rawData) = Len(data)
               /\ \A i \in 1..Len(data) :
                     \A key \in DOMAIN heap[data[i]] :
                        IsNormalOf(heap[promise.value.rawData[i]][key],
                                   heap[data[i]][key])
               /\ promise.value.variables
                     = analyzeVariables(heap, promise.value.rawData)
               /\ [dataType   |-> promise.value.dataType,
                   confidence |-> promise.value.confidence]
                     = detectDataType(heap, promise.value.rawData)
         /\ promise.state = "rejected" =>
               \E prefix \in {"", "file read failed: ", "file parse failed: "} :
                  promise.value.message = prefix \o OriginalMessage

\* A configuration that is empty or contradictory: a sub-configuration or
\* the missing-value threshold is absent, or a method is none of its
\* stage's methods.
IsInvalidConfig(cfg) ==
    \/ {"missingValue", "outlier", "standardization"} \ DOMAIN cfg # {}
    \/ "threshold" \notin DOMAIN cfg.missingValue
    \/ cfg.missingValue.method \notin {"mean", "median", "mode", "remove", "none"}
    \/ cfg.outlier.method \notin {"zscore", "iqr", "none"}
    \/ cfg.standardization.method \notin {"zscore", "minmax", "none"}

\* C20: a preprocessing call with an empty or contradictory configuration
\* fails at once with an error: no stage runs, nothing is defaulted and no
\* table is returned.  (The error is to be an InvalidConfig; any exception
\* is let pass for it here.)
C20_InvalidConfigFailsFast ==
    [][IsInvalidConfig(config)
         => /\ pc = "missing"
            /\ pc' \in {"InvalidConfig", "TypeError"}
            /\ UNCHANGED <<heap, processedData, summary>>]_vars

\* The entry of values at nearest-rank position floor(num * n / 4) of the
\* ascending order (positions from 0), found by counting.
NearestRank(vals, num) ==
    LET k == (num * Len(vals)) \div 4
    IN  CHOOSE a \in Range(vals) :
           /\ Cardinality({i \in 1..Len(vals) : vals[i] < a}) <= k
           /\ Cardinality({i \in 1..Len(vals) : vals[i] <= a}) > k

\* C22: IQR detection takes Q1 and Q3 at the nearest ranks floor(0.25*n) and
\* floor(0.75*n) of the ascending order, and returns, in ascending order,
\* exactly the positions i of the list as passed whose value is below
\* Q1 - k*IQR or above Q3 + k*IQR; the list passed is not reordered.  (A
\* position p of the model is index p - 1 of the array.)
C22_QuartilesByRank ==
    [][pc = "detectIQR" =>
         /\ iqrValues' = iqrValues
         /\ \A j \in 1..Len(iqrIndices') : iqrIndices'[j] \in 1..Len(iqrValues)
         /\ \A j \in 1..(Len(iqrIndices') - 1) : iqrIndices'[j] < iqrIndices'[j + 1]
         /\ \A i \in 1..Len(iqrValues) :
               LET Q1  == NearestRank(iqrValues, 1)
                   Q3  == NearestRank(iqrValues, 3)
                   IQR == Q3 - Q1
               IN  (i \in Range(iqrIndices')) <=>
                      \/ Scale * (Q1 - iqrValues[i]) > iqrThreshold * IQR
                      \/ Scale * (iqrValues[i] - Q3) > iqrThreshold * IQR
      ]_vars

\* [1, 2, 3, 4, 100] with threshold 1.5: exactly index 4 (position 5) is
\* flagged.
C22_Witness ==
    /\ pc = "detectedIQR"
    /\ iqrValues = <<1 * Scale, 2 * Scale, 3 * Scale, 4 * Scale, 100 * Scale>>
    /\ iqrThreshold = (3 * Scale) \div 2
    /\ iqrIndices = <<5>>

\* C23: when the missing-value stage runs with a method other than none,
\* its summary has an entry for every numeric column, naming the configured
\* method or "skip"; an entry for mean or median counts the missing cells
\* of the column.
C23_EntryPerNumericColumn ==
    [][(pc = "missing" /\ config.missingValue.method # "none") =>
         \A v \in NumericNames :
            LET entry == summary'.missingValues[v]
            IN  /\ entry.method \in {config.missingValue.method, "skip"}
                /\ entry.method \in {"mean", "median"} =>
                      entry.count = NullCells(heap, processedData, v)
      ]_vars

\* C24: for a table with at least one row, analyzeVariables reports for
\* every column a finite mean, std, min and max with min <= max, and mean 0
\* and std 0 for a column without any non-missing value.
C24_StatsFinite ==
    (pc \in {"repeat", "repeated"} /\ Len(data) > 0) =>
        \A i \in 1..Len(variables) :
           LET stats == variables[i].stats
           IN  /\ \A field \in {"mean", "std", "min", "max"} : stats[field].k = "num"
               /\ stats.min.v <= stats.max.v
               /\ stats.count = 0 => (stats.mean = Num(0) /\ stats.std = Num(0))

\* C25: along preprocessData and then analyzeVariables, a column with at
\* least one non-missing cell whose every non-missing cell is a text that is
\* no number and parses as a date (DateText is the one such text among the
\* raw cells) is classified as date.
C25_DateColumnIsDate ==
    pc = "repeat" =>
        \A i \in 1..Len(variables) :
           LET raw     == CellsOfColumn(heap, data, variables[i].name)
               present == {j \in 1..Len(raw) : raw[j] \notin {Str(<<>>), Null, Undefined}}
           IN  (present # {} /\ \A j \in present : raw[j] = Str(DateText))
                  => variables[i].type = "date"

\* The columns a missing-value summary records as skipped.
Skipped(s) == {v \in ColumnSet : s[v].method = "skip"}

\* C26: with method remove the missing-value stage gives the same surviving
\* rows and the same skipped columns whatever the order of the variable
\* list: what the stage yields for the order it was called with is what it
\* yields for every other order of the same variables.
C26_RemoveOrderIndependent ==
    [][(pc = "missing" /\ config.missingValue.method = "remove") =>
         \A other \in Orderings(variables) :
            LET result == handleMissingValues(heap, processedData, other,
                                              config.missingValue)
            IN  /\ Range(result.data) = Range(processedData')
                /\ Skipped(result.summary) = Skipped(summary'.missingValues)
      ]_vars

\* The configured detection rule, with the bounds taken over values, leaves
\* value alone: it lies in [Q1 - k*IQR, Q3 + k*IQR] for iqr and in
\* [mean - k*std, mean + k*std] for zscore.
WithinBounds(value, vals, cfg) ==
    IF cfg.method = "iqr"
    THEN LET Q1  == NearestRank(vals, 1)
             Q3  == NearestRank(vals, 3)
             IQR == Q3 - Q1
         IN  /\ Scale * (Q1 - value) <= cfg.threshold * IQR
             /\ Scale * (value - Q3) <= cfg.threshold * IQR
    ELSE LET mean == calculateMean(vals)
             std  == calculateStd(vals)
         IN  /\ Scale * (mean - value) <= cfg.threshold * std
             /\ Scale * (value - mean) <= cfg.threshold * std

\* C27: after the outlier stage has run with zscore or iqr, every cell of a
\* numeric column that had no missing cell lies within the bounds of the
\* configured rule, computed over the column's values before the stage.
C27_NoOutlierLeft ==
    [][(pc = "outlier" /\ config.outlier.method \in {"zscore", "iqr"}) =>
         \A v \in NumericNames :
            (Len(processedData) > 0 /\ NullCells(heap, processedData, v) = 0) =>
               LET vals == [i \in 1..Len(processedData) |-> heap[processedData[i]][v].v]
               IN  \A i \in 1..Len(processedData') :
                      /\ heap'[processedData'[i]][v].k = "num"
                      /\ WithinBounds(heap'[processedData'[i]][v].v, vals, config.outlier)
      ]_vars

\* C28: when an upload succeeds (the request is answered and the success
\* notice is the one left showing), the method recommendations stored are
\* not empty, whichever of cross, panel and time the detected type is.
C28_RecommendationsAfterUpload ==
    [][(uploading /\ ~uploading' /\ message' = "success") =>
          /\ detectedDataType'.type \in DataTypes
          /\ methodRecommendations' # <<>>
      ]_vars

\* entry is a copy of an analyzed variable of the same name that differs
\* from it in the role alone.
IsCopyWithRole(entry, list) ==
    \E i \in 1..Len(list) :
       /\ list[i].name = entry.name
       /\ DOMAIN entry = DOMAIN list[i] \cup {"role"}
       /\ \A field \in DOMAIN list[i] : entry[field] = list[i][field]

\* C21: whatever roles are assigned and removed in the variable selection,
\* every entry of the selected-variables list is a copy of the analyzed
\* variable of the same name with a role added (name, type and stats as
\* analyzed), and the analyzed list stays as it was.
C21_RoleKeepsType ==
    [][/\ variables' = variables
       /\ \A i \in 1..Len(selectedVariables') :
             IsCopyWithRole(selectedVariables'[i], variables')]_vars

\* Roles have been assigned and one removed: a variable analyzed as dummy
\* holds the role independent, and one analyzed as numeric holds grouping.
C21_Witness ==
    /\ pc = "selection"
    /\ Len(selectedVariables) = 2
    /\ selectedVariables[1].name = "y"
    /\ selectedVariables[1].role = "grouping" /\ selectedVariables[1].type = "numeric"
    /\ selectedVariables[2].name = "x"
    /\ selectedVariables[2].role = "dummy" /\ selectedVariables[2].type = "dummy"

\* C29: at most one selected variable holds each of the roles dependent,
\* time and id.
C29_OneHolderPerSingleRole ==
    pc = "selection" =>
        \A role \in SingleRoles :
           Cardinality({i \in 1..Len(selectedVariables) :
                           selectedVariables[i].role = role}) <= 1

\* C30: a step that is the outcome of a multiple selector's change handler
\* for a new list of names leaves exactly the names of that list holding the
\* selector's role, and the variables holding other roles as they were.
C30_HoldersAreTheNewList ==
    [][pc = "selection" =>
         \A role \in MultipleRoles :
            \A newValues \in NewValuesOf(ValueOf(selectedVariables, role),
                                         OptionsOf(variables, role)) :
               (selectedVariables' =
                   setSelectedVariables(selectedVariables,
                      MultipleOnChange(variables, selectedVariables, role, newValues)))
               => /\ {selectedVariables'[i].name :
                        i \in {j \in 1..Len(selectedVariables') :
                                  selectedVariables'[j].role = role}}
                       = Range(newValues)
                  /\ {selectedVariables'[i] :
                        i \in {j \in 1..Len(selectedVariables') :
                                  selectedVariables'[j].role # role}}
                       = {selectedVariables[i] :
                            i \in {j \in 1..Len(selectedVariables) :
                                      selectedVariables[j].role # role}}
      ]_vars

====
